---------------------------- MODULE Spec2Model ----------------------------
(***************************************************************************)
(* A model of monitorctl's platform-agnostic core: the configuration       *)
(* resolver (src/src/config.rs), the tray command vocabulary               *)
(* (src/src/tray/commands.rs, src/src/tray/common.rs) and the tray model   *)
(* state machine (src/src/tray/model.rs).                                  *)
(*                                                                         *)
(* Data representation                                                     *)
(*   String            a sequence of code points, "1" is <<49>>            *)
(*   Option<T>         <<>> for None, <<x>> for Some(x)                    *)
(*   HashMap<String,u16>  a sequence of <<key, value>> entries with        *)
(*                     distinct keys; the order of the sequence is the     *)
(*                     order in which the map happens to iterate           *)
(*   BTreeMap<u16,(String,u16)>  a function from id to <<name, value>>     *)
(*   Result<T>         [ok |-> TRUE, val |-> v] or [ok |-> FALSE, err |-> e]*)
(***************************************************************************)
EXTENDS Integers, Sequences, FiniteSets, TLC

VARIABLES
    call,               \* pure-function harness: the function applied and its arguments
    ret,                \* pure-function harness: what the function returned
    inputs,             \* TrayModel.inputs
    display_selector,   \* TrayModel.display_selector
    last_error,         \* TrayModel.last_error
    start_enabled,      \* TrayModel.start_enabled
    start_pref,         \* TrayModel.start_pref
    cfgFile,            \* the configuration file on disk
    displays,           \* the monitors the backend would enumerate now
    osEnabled,          \* the OS autostart state behind the StartupManager
    lastCmd,            \* the command the last handle() was given
    update,             \* the ModelUpdate the last handle() returned
    loaded,             \* what the last load read: the file, the display report
    calls,              \* the external calls the last operation made, in order
    toggles,            \* is_enabled() before each of the latest consecutive
                        \* successful ToggleStartup commands (the last two)
    winState            \* what State::new of the Windows tray returned, in the
                        \* state after construction (none afterwards)

vars == <<call, ret, inputs, display_selector, last_error, start_enabled,
          start_pref, cfgFile, displays, osEnabled, lastCmd, update, loaded, calls,
          toggles, winState>>

pureVars == <<call, ret>>
trayVars == <<inputs, display_selector, last_error, start_enabled, start_pref,
              cfgFile, displays, osEnabled, lastCmd, update, loaded, calls,
              toggles, winState>>

-----------------------------------------------------------------------------
(* Bounds of the model.                                                    *)

MaxRules == 2           \* monitor rules in a config
MaxDisplays == 2        \* monitors the backend enumerates
MaxPermLen == 3         \* maps up to this size iterate in every possible order
MaxPresets == 3         \* presets of the maps build_inputs is applied to
NumMany == 3001         \* presets of the largest configured preset map

-----------------------------------------------------------------------------
(* Strings.                                                                *)

U16 == 65536

S_1 == <<49>>                               \* "1"
S_3 == <<51>>                               \* "3"
S_9 == <<57>>                               \* "9"
S_uuid_ == <<117, 117, 105, 100, 58>>       \* "uuid:"
S_dp == <<100, 112>>                        \* "dp"
S_dp1 == <<100, 112, 49>>                   \* "dp1"
S_usb_c == <<117, 115, 98, 95, 99>>         \* "usb_c"
S_hdmi1 == <<104, 100, 109, 105, 49>>       \* "hdmi1"
S_HDMI == <<72, 68, 77, 73>>                \* "HDMI"
S_Ab == <<65, 98>>                          \* "Ab"
S_aB == <<97, 66>>                          \* "aB"
S_b == <<98>>                               \* "b"
S_X == <<88>>                               \* "X"
S_U == <<85>>                               \* "U"
S_empty == <<>>                             \* ""

None == <<>>
Some(x) == <<x>>
unwrap_or(o, d) == IF o = None THEN d ELSE o[1]

\* u8::to_ascii_lowercase on one code point: only 'A'..'Z' change.
LowerChar(c) == IF c >= 65 /\ c <= 90 THEN c + 32 ELSE c

to_ascii_lowercase(s) == [i \in 1..Len(s) |-> LowerChar(s[i])]

\* str::contains: some window of hay equals needle; the empty needle is
\* contained in every string, the empty one included.
contains(hay, needle) ==
    \E i \in 0..(Len(hay) - Len(needle)) :
        \A j \in 1..Len(needle) : hay[i + j] = needle[j]

\* u32::to_string: the decimal digits, most significant first.
RECURSIVE to_string(_)
to_string(n) ==
    IF n < 10 THEN <<48 + n>>
    ELSE Append(to_string(n \div 10), 48 + (n % 10))

\* str::cmp, bytewise lexicographic.
RECURSIVE LexLess(_, _)
LexLess(a, b) ==
    IF a = <<>> THEN b # <<>>
    ELSE IF b = <<>> THEN FALSE
    ELSE IF Head(a) # Head(b) THEN Head(a) < Head(b)
    ELSE LexLess(Tail(a), Tail(b))

-----------------------------------------------------------------------------
(* HashMap<String, u16>.                                                   *)

EmptyMap == <<>>
Keys(m) == {m[i][1] : i \in 1..Len(m)}
Entries(m) == {m[i] : i \in 1..Len(m)}
HasKey(m, k) == \E i \in 1..Len(m) : m[i][1] = k
Get(m, k) == (CHOOSE e \in Entries(m) : e[1] = k)[2]

\* An extend that keeps the value of a key already present.
MapExtendKeep(m, o) == m \o SelectSeq(o, LAMBDA e : ~HasKey(m, e[1]))

\* HashMap::extend, and a loop of HashMap::insert: every entry of o is inserted
\* into m, replacing the value of a key m already holds.
MapExtend(m, o) ==
    [i \in 1..Len(m) |-> IF HasKey(o, m[i][1]) THEN <<m[i][1], Get(o, m[i][1])>> ELSE m[i]]
        \o SelectSeq(o, LAMBDA e : ~HasKey(m, e[1]))

-----------------------------------------------------------------------------
(* config.rs: the resolver.                                                *)

\* Iterator::find: the first element of seq among the positions hits (those
\* satisfying the predicate), as an Option.
Find(seq, hits) ==
    IF hits = {} THEN None
    ELSE Some(seq[CHOOSE i \in hits : \A j \in hits : i <= j])

\* selector_for_display that always answers the index.
selector_for_display_index(display) == to_string(display.index)

selector_for_display(display) ==
    IF display.system_uuid # None
    THEN S_uuid_ \o display.system_uuid[1]
    ELSE to_string(display.index)

\* Option<(&DisplayInfo, String)>: the matched display and its inferred selector.
match_display(mon_cfg, ds) ==
    IF mon_cfg.match.index # None
    THEN LET d == Find(ds, {i \in 1..Len(ds) : ds[i].index = mon_cfg.match.index[1]})
         IN  IF d = None THEN None
             ELSE Some(<<d[1], selector_for_display(d[1])>>)
    ELSE IF mon_cfg.match.contains = None THEN None
    ELSE LET needle_lc == to_ascii_lowercase(mon_cfg.match.contains[1])
             d == Find(ds, {i \in 1..Len(ds) :
                        contains(to_ascii_lowercase(unwrap_or(ds[i].product_name, S_empty)),
                                 needle_lc)})
         IN  IF d = None THEN None
             ELSE Some(<<d[1], selector_for_display(d[1])>>)

\* scan_monitors without the break: a later matching rule overrides.
RECURSIVE scan_monitors_nobreak(_, _, _, _)
scan_monitors_nobreak(monitors, ds, i, ins) ==
    IF i > Len(monitors) THEN [display_selector |-> None, inputs |-> ins]
    ELSE LET mon_cfg == monitors[i]
             m == match_display(mon_cfg, ds)
         IN  IF m = None THEN scan_monitors_nobreak(monitors, ds, i + 1, ins)
             ELSE LET rest == scan_monitors_nobreak(monitors, ds, i + 1,
                                                    MapExtend(ins, mon_cfg.inputs))
                  IN  [display_selector |->
                            IF rest.display_selector # None THEN rest.display_selector
                            ELSE IF mon_cfg.display # None THEN Some(mon_cfg.display[1])
                            ELSE Some(m[1][2]),
                       inputs |-> rest.inputs]

\* The loop over cfg.monitors of resolve, from rule i on: the first rule that
\* matches sets the selector and layers its inputs, and the loop breaks.
RECURSIVE scan_monitors(_, _, _, _)
scan_monitors(monitors, ds, i, ins) ==
    IF i > Len(monitors) THEN [display_selector |-> None, inputs |-> ins]
    ELSE LET mon_cfg == monitors[i]
             m == match_display(mon_cfg, ds)
         IN  IF m = None THEN scan_monitors(monitors, ds, i + 1, ins)
             ELSE [display_selector |->
                        IF mon_cfg.display # None THEN Some(mon_cfg.display[1])
                        ELSE Some(m[1][2]),
                   inputs |-> MapExtend(ins, mon_cfg.inputs)]

\* resolve that layers the inputs of the first matching rule even when the
\* selector is already chosen.
resolve_always_layers(config, ds, display_arg) ==
    IF config = None
    THEN [display_selector |-> unwrap_or(display_arg, S_1), inputs |-> EmptyMap]
    ELSE LET cfg == config[1]
             ins == MapExtend(EmptyMap, cfg.inputs)
             sel == IF display_arg = None THEN cfg.default_display ELSE display_arg
             scanned == scan_monitors(cfg.monitors, ds, 1, ins)
             r == IF sel = None THEN scanned
                  ELSE [display_selector |-> sel, inputs |-> scanned.inputs]
         IN  [display_selector |-> unwrap_or(r.display_selector, S_1),
              inputs |-> r.inputs]

\* resolve with config.default_display taking precedence over display_arg.
resolve_default_first(config, ds, display_arg) ==
    IF config = None
    THEN [display_selector |-> unwrap_or(display_arg, S_1), inputs |-> EmptyMap]
    ELSE LET cfg == config[1]
             ins == MapExtend(EmptyMap, cfg.inputs)
             sel == IF cfg.default_display # None THEN cfg.default_display ELSE display_arg
             r == IF sel = None THEN scan_monitors(cfg.monitors, ds, 1, ins)
                  ELSE [display_selector |-> sel, inputs |-> ins]
         IN  [display_selector |-> unwrap_or(r.display_selector, S_1),
              inputs |-> r.inputs]

resolve(config, ds, display_arg) ==
    IF config = None
    THEN [display_selector |-> unwrap_or(display_arg, S_1), inputs |-> EmptyMap]
    ELSE LET cfg == config[1]
             ins == MapExtend(EmptyMap, cfg.inputs)
             sel == IF display_arg = None THEN cfg.default_display ELSE display_arg
             r == IF sel = None THEN scan_monitors(cfg.monitors, ds, 1, ins)
                  ELSE [display_selector |-> sel, inputs |-> ins]
         IN  [display_selector |-> unwrap_or(r.display_selector, S_1),
              inputs |-> r.inputs]

-----------------------------------------------------------------------------
(* The inputs the pure functions are applied to.                           *)

\* Sequences over S of length 0..n.
SeqsUpTo(S, n) == UNION {[1..k -> S] : k \in 0..n}

\* What Backend::list_displays can report: the monitor at position i has
\* index i, a product name or none, a system UUID or none.
DisplayListsOf(monitors) ==
    {[i \in 1..Len(p) |-> [index |-> i, product_name |-> p[i][1], system_uuid |-> p[i][2]]] :
        p \in SeqsUpTo(monitors, MaxDisplays)}

ProductNames == {None, Some(S_empty), Some(S_Ab), Some(S_b)}
SystemUuids == {None, Some(S_U)}
Needles == {None, Some(S_empty), Some(S_aB), Some(S_b), Some(S_X)}
MatchIndexes == {None} \cup {Some(i) : i \in 1..(MaxDisplays + 1)}

MonitorMatches == [contains : Needles, index : MatchIndexes]
MatchDisplayLists == DisplayListsOf(ProductNames \X SystemUuids)

GlobalInputs == <<<<S_dp1, 15>>, <<S_usb_c, 26>>>>
RuleInputs == <<<<S_hdmi1, 18>>, <<S_dp1, 17>>>>

ResolveMatches ==
    {[contains |-> None, index |-> Some(2)],
     [contains |-> Some(S_empty), index |-> None],
     [contains |-> Some(S_aB), index |-> None]}
ResolveRules ==
    {[match |-> m, display |-> o[1], inputs |-> o[2]] :
        m \in ResolveMatches,
        o \in {<<None, EmptyMap>>, <<None, RuleInputs>>, <<Some(S_X), RuleInputs>>}}
ResolveConfigs ==
    [start_with_windows : {None},
     default_display : {None, Some(S_9)},
     inputs : {EmptyMap, GlobalInputs},
     monitors : SeqsUpTo(ResolveRules, MaxRules)]
ResolveDisplayLists ==
    DisplayListsOf({<<None, Some(S_U)>>, <<Some(S_Ab), None>>, <<Some(S_Ab), Some(S_U)>>})
DisplayArgs == {None, Some(S_3)}

SelectorIndexes == {0, 1, 9, 10, 42, 100, 2147483647}

-----------------------------------------------------------------------------
(* The pure functions, applied: one application in each behaviour.         *)

NoCall == [fn |-> "none"]

CallResolve ==
    /\ call = NoCall
    /\ \E config \in {None} \cup {Some(c) : c \in ResolveConfigs},
       ds \in ResolveDisplayLists, display_arg \in DisplayArgs :
        /\ call' = [fn |-> "resolve", config |-> config, displays |-> ds,
                    display_arg |-> display_arg]
        /\ ret' = resolve(config, ds, display_arg)
        /\ UNCHANGED trayVars

CallMatchDisplay ==
    /\ call = NoCall
    /\ \E m \in MonitorMatches, ds \in MatchDisplayLists :
        /\ call' = [fn |-> "match_display",
                    mon_cfg |-> [match |-> m, display |-> None, inputs |-> EmptyMap],
                    displays |-> ds]
        /\ ret' = match_display(call'.mon_cfg, ds)
        /\ UNCHANGED trayVars

CallSelectorForDisplay ==
    /\ call = NoCall
    /\ \E i \in SelectorIndexes, u \in SystemUuids :
        /\ call' = [fn |-> "selector_for_display",
                    display |-> [index |-> i, product_name |-> None, system_uuid |-> u]]
        /\ ret' = selector_for_display(call'.display)
        /\ UNCHANGED trayVars

-----------------------------------------------------------------------------
(* Config paths (config.rs).  A path is the sequence of its components, a  *)
(* leading "/" being the root; a variable's text is the path it spells.    *)

\* str::trim().is_empty() of a variable's text: nothing, or white space only.
IsBlank(p) == p = <<>> \/ (Len(p) = 1 /\ p[1] \in {"", " "})

\* Path::parent: none for the empty path and for a root, otherwise the path
\* without its last component (the empty path for a single relative one).
parent(path) ==
    IF path = <<>> \/ path = <<"/">> THEN None
    ELSE Some(SubSeq(path, 1, Len(path) - 1))

\* std::env::var: the value of a variable that is set to valid Unicode.
env_var(v) == IF v # None /\ v[1].unicode THEN Some(v[1].path) ELSE None

\* resolve_config_path with ./monitorctl.json tried before the override.
resolve_config_path_local_first(env) ==
    LET p == env_var(env.MONITORCTL_CONFIG)
    IN  IF env.local_exists THEN Some(<<"monitorctl.json">>)
        ELSE IF p # None /\ ~IsBlank(p[1]) THEN p
        ELSE IF env.APPDATA # None
        THEN Some(env.APPDATA[1] \o <<"monitorctl", "config.json">>)
        ELSE IF env.HOME # None
        THEN Some(env.HOME[1] \o <<".config", "monitorctl", "config.json">>)
        ELSE None

\* config::resolve_config_path in the environment env: the variables
\* MONITORCTL_CONFIG, APPDATA and HOME, and whether ./monitorctl.json exists.
resolve_config_path(env) ==
    LET p == env_var(env.MONITORCTL_CONFIG)
    IN  IF p # None /\ ~IsBlank(p[1]) THEN p
        ELSE IF env.local_exists THEN Some(<<"monitorctl.json">>)
        ELSE IF env.APPDATA # None
        THEN Some(env.APPDATA[1] \o <<"monitorctl", "config.json">>)
        ELSE IF env.HOME # None
        THEN Some(env.HOME[1] \o <<".config", "monitorctl", "config.json">>)
        ELSE None

\* The environments resolve_config_path is applied to.
OverrideValues ==
    {None} \cup
    {Some([unicode |-> u, path |-> p]) :
        u \in BOOLEAN,
        p \in {<<>>, <<" ">>, <<"m.json">>, <<"/">>, <<"/", "etc", "m.json">>}}
PathEnvs ==
    [MONITORCTL_CONFIG : OverrideValues,
     local_exists : BOOLEAN,
     APPDATA : {None, Some(<<>>), Some(<<"C:", "AppData">>)},
     HOME : {None, Some(<<"/", "home">>)}]

CallResolveConfigPath ==
    /\ call = NoCall
    /\ \E env \in PathEnvs :
        /\ call' = [fn |-> "resolve_config_path", env |-> env]
        /\ ret' = resolve_config_path(env)
        /\ UNCHANGED trayVars

-----------------------------------------------------------------------------
(* config::parse_input_value.                                              *)

ParseOk(v) == [ok |-> TRUE, val |-> v, known |-> <<>>]
ParseErr(known) == [ok |-> FALSE, val |-> 0, known |-> known]

\* The value of a digit string, most significant digit first.
RECURSIVE DigitsValue(_)
DigitsValue(s) ==
    IF s = <<>> THEN 0
    ELSE 10 * DigitsValue(SubSeq(s, 1, Len(s) - 1)) + (s[Len(s)] - 48)

\* str::parse::<u16>: an optional "+", then one or more digits whose value
\* fits 16 bits; anything else, the empty string included, is an error.
parse_u16(s) ==
    LET d == IF s # <<>> /\ s[1] = 43 THEN Tail(s) ELSE s
    IN  IF d = <<>> \/ (\E i \in 1..Len(d) : d[i] \notin 48..57) THEN ParseErr(<<>>)
        ELSE IF DigitsValue(d) >= U16 THEN ParseErr(<<>>)
        ELSE ParseOk(DigitsValue(d))

\* parse_input_value that looks the value up as a preset name before it
\* tries it as a number.
parse_input_value_name_first(value, resolved) ==
    IF HasKey(resolved.inputs, value) THEN ParseOk(Get(resolved.inputs, value))
    ELSE IF parse_u16(value).ok THEN ParseOk(parse_u16(value).val)
    ELSE ParseErr(SortSeq([i \in 1..Len(resolved.inputs) |-> resolved.inputs[i][1]],
                          LexLess))

\* config::parse_input_value; the error carries the preset names its message
\* lists, in the order it lists them.
parse_input_value(value, resolved) ==
    IF parse_u16(value).ok THEN ParseOk(parse_u16(value).val)
    ELSE IF HasKey(resolved.inputs, value) THEN ParseOk(Get(resolved.inputs, value))
    ELSE ParseErr(SortSeq([i \in 1..Len(resolved.inputs) |-> resolved.inputs[i][1]],
                          LexLess))

\* The values and preset maps parse_input_value is applied to: "26", "+26",
\* "026", "65535", "65536", "-1", " 26", "", "dp1", "hdmi1"; maps of up to
\* MaxPresets presets named "26", "65536", "dp1", "usb_c".
S_26 == <<50, 54>>
S_65535 == <<54, 53, 53, 51, 53>>
S_65536 == <<54, 53, 53, 51, 54>>
ParseValues ==
    {S_26, <<43>> \o S_26, <<48>> \o S_26, S_65535, S_65536, <<45, 49>>,
     <<32>> \o S_26, S_empty, S_dp1, S_hdmi1}
ParseMaps ==
    {m \in SeqsUpTo({S_26, S_65536, S_dp1, S_usb_c} \X {15, 17}, MaxPresets) :
        \A i, j \in 1..Len(m) : m[i][1] = m[j][1] => i = j}

CallParseInputValue ==
    /\ call = NoCall
    /\ \E value \in ParseValues, ins \in ParseMaps :
        /\ call' = [fn |-> "parse_input_value", value |-> value,
                    resolved |-> [display_selector |-> S_1, inputs |-> ins]]
        /\ ret' = parse_input_value(value, call'.resolved)
        /\ UNCHANGED trayVars

-----------------------------------------------------------------------------
(* platform/windows_dxva2.rs: selecting the monitor of set-input and       *)
(* get-input.  mons is the sequence of the monitors' descriptions.         *)

S_name_ == <<110, 97, 109, 101, 58>>
VCP_INPUT == 96

\* str::trim: leading and trailing white space removed.
RECURSIVE trim(_)
trim(s) ==
    IF s = <<>> THEN s
    ELSE IF s[1] \in {9, 10, 13, 32} THEN trim(Tail(s))
    ELSE IF s[Len(s)] \in {9, 10, 13, 32} THEN trim(SubSeq(s, 1, Len(s) - 1))
    ELSE s

\* str::strip_prefix.
strip_prefix(s, prefix) ==
    IF Len(s) >= Len(prefix) /\ SubSeq(s, 1, Len(prefix)) = prefix
    THEN Some(SubSeq(s, Len(prefix) + 1, Len(s)))
    ELSE None

\* The positions of the monitors whose description contains the needle,
\* ignoring ASCII case.
name_matches(needle, mons) ==
    {i \in 1..Len(mons) :
        contains(to_ascii_lowercase(mons[i]), to_ascii_lowercase(needle))}

\* What resolve_selector returns: a position, or an error.
Selected(i) == [ok |-> TRUE, val |-> i, err |-> ""]
Refused(e) == [ok |-> FALSE, val |-> 0, err |-> e]

\* resolve_selector that takes the first of several matching monitors.
resolve_selector_first_match(selector, mons) ==
    LET idx == parse_u16(selector)
        name == strip_prefix(selector, S_name_)
    IN  IF idx.ok
        THEN IF idx.val = 0 THEN Refused("display selector must be >= 1")
             ELSE IF idx.val > Len(mons) THEN Refused("out of range")
             ELSE Selected(idx.val - 1)
        ELSE IF name # None
        THEN LET matches == name_matches(trim(name[1]), mons)
             IN  IF trim(name[1]) = <<>> THEN Refused("requires a non-empty substring")
                 ELSE IF matches = {} THEN Refused("no monitors matched")
                 ELSE Selected((CHOOSE i \in matches : \A j \in matches : i <= j) - 1)
        ELSE Refused("invalid display selector")

\* resolve_selector: the 0-based position of the selected monitor.  The
\* selector is parsed as usize; the selectors applied here are far below 2^16.
resolve_selector(selector, mons) ==
    LET idx == parse_u16(selector)
        name == strip_prefix(selector, S_name_)
    IN  IF idx.ok
        THEN IF idx.val = 0 THEN Refused("display selector must be >= 1")
             ELSE IF idx.val > Len(mons) THEN Refused("out of range")
             ELSE Selected(idx.val - 1)
        ELSE IF name # None
        THEN LET matches == name_matches(trim(name[1]), mons)
             IN  IF trim(name[1]) = <<>> THEN Refused("requires a non-empty substring")
                 ELSE IF matches = {} THEN Refused("no monitors matched")
                 ELSE IF Cardinality(matches) > 1 THEN Refused("ambiguous")
                 ELSE Selected((CHOOSE i \in matches : TRUE) - 1)
        ELSE Refused("invalid display selector")

\* The outcome of a backend operation: whether it succeeded, and the VCP
\* requests it issued, each naming the 0-based position of its monitor.
WinResult(ok, vcp) == [ok |-> ok, vcp |-> vcp]

\* WindowsDxva2Backend::set_input and get_input on the monitors mons (none
\* when the enumeration fails); vcpOk is whether the monitor answers.
windows_set_input(selector, value, mons, vcpOk) ==
    IF mons = None THEN WinResult(FALSE, <<>>)
    ELSE IF mons[1] = <<>> THEN WinResult(FALSE, <<>>)
    ELSE LET idx == resolve_selector(selector, mons[1])
         IN  IF ~idx.ok THEN WinResult(FALSE, <<>>)
             ELSE WinResult(vcpOk, <<[op |-> "SetVCPFeature", monitor |-> idx.val,
                                      code |-> VCP_INPUT, value |-> value]>>)

windows_get_input(selector, mons, vcpOk) ==
    IF mons = None THEN WinResult(FALSE, <<>>)
    ELSE IF mons[1] = <<>> THEN WinResult(FALSE, <<>>)
    ELSE LET idx == resolve_selector(selector, mons[1])
         IN  IF ~idx.ok THEN WinResult(FALSE, <<>>)
             ELSE WinResult(vcpOk, <<[op |-> "GetVCPFeatureAndVCPFeatureReply",
                                      monitor |-> idx.val, code |-> VCP_INPUT, value |-> 0]>>)

\* The selectors: "0".."3", "+1", " 1", "", "uuid:U", and "name:" followed by
\* "", " ", "ab", " b ", "x", "zz".  The monitor lists: the enumeration
\* failed, or up to MaxDisplays + 1 monitors described "Ab", "aB", "X".
WinSelectors ==
    {to_string(n) : n \in 0..(MaxDisplays + 2)} \cup
    {<<43, 49>>, <<32, 49>>, S_empty, S_uuid_ \o S_U} \cup
    {S_name_ \o n : n \in {S_empty, <<32>>, <<97, 98>>, <<32, 98, 32>>, <<120>>,
                            <<122, 122>>}}
WinMonitorLists ==
    {None} \cup {Some(m) : m \in SeqsUpTo({S_Ab, S_aB, S_X}, MaxDisplays + 1)}

CallWindowsInput ==
    /\ call = NoCall
    /\ \E sel \in WinSelectors, mons \in WinMonitorLists, vcpOk \in BOOLEAN,
          op \in {"set_input", "get_input"} :
        /\ call' = [fn |-> "windows_input", op |-> op, display_selector |-> sel,
                    value |-> 17, mons |-> mons, vcpOk |-> vcpOk]
        /\ ret' = IF op = "set_input" THEN windows_set_input(sel, 17, mons, vcpOk)
                  ELSE windows_get_input(sel, mons, vcpOk)
        /\ UNCHANGED trayVars

-----------------------------------------------------------------------------
(* tray/commands.rs and tray/common.rs.                                    *)

CMD_BASE_INPUT == 2000
CMD_RELOAD == 5000
CMD_QUIT == 5001
CMD_TOGGLE_STARTUP == 5002
CMD_EDIT_CONFIG == 5003
CMD_OPEN_CONFIG_FOLDER == 5004

Cmd(tag) == [tag |-> tag, value |-> 0]
CmdInput(v) == [tag |-> "Input", value |-> v]
NoCmd == Cmd("none")

\* The loop shared by build_inputs and default_inputs: the i-th entry is
\* inserted under next_cmd, which starts at base_cmd and is incremented after
\* each insert.  next_cmd is a u16: the increment is taken modulo 2^16 (a
\* release build; a debug build panics on the overflow), and an insert under
\* an id already present replaces the entry.
AssignIds(keys, base_cmd) ==
    LET n == Len(keys)
        first(id) == ((id - base_cmd) % U16) + 1
        last(id) == first(id) + U16 * ((n - first(id)) \div U16)
    IN  [id \in {(base_cmd + i - 1) % U16 : i \in 1..n} |-> keys[last(id)]]

default_inputs(base_cmd) == AssignIds(<<<<S_dp1, 15>>, <<S_usb_c, 26>>>>, base_cmd)

\* The entries left in the order the map iterated.
SortByNameSkipped(entries) == entries

\* Vec::sort_by on the entries' names.
SortByName(entries) == SortSeq(entries, LAMBDA a, b : LexLess(a[1], b[1]))

\* ins is the preset map in the order it iterates.
build_inputs(ins, base_cmd) ==
    IF Len(ins) = 0 THEN default_inputs(base_cmd)
    ELSE AssignIds(SortByName(ins), base_cmd)

\* decode with the fixed action ids looked at before the table.
decode_fixed_first(cmd_id, table) ==
    IF cmd_id = CMD_RELOAD THEN Some(Cmd("Reload"))
    ELSE IF cmd_id = CMD_QUIT THEN Some(Cmd("Quit"))
    ELSE IF cmd_id = CMD_TOGGLE_STARTUP THEN Some(Cmd("ToggleStartup"))
    ELSE IF cmd_id = CMD_EDIT_CONFIG THEN Some(Cmd("EditConfig"))
    ELSE IF cmd_id = CMD_OPEN_CONFIG_FOLDER THEN Some(Cmd("OpenConfigFolder"))
    ELSE IF cmd_id \in DOMAIN table THEN Some(CmdInput(table[cmd_id][2]))
    ELSE None

decode(cmd_id, table) ==
    IF cmd_id \in DOMAIN table THEN Some(CmdInput(table[cmd_id][2]))
    ELSE IF cmd_id = CMD_RELOAD THEN Some(Cmd("Reload"))
    ELSE IF cmd_id = CMD_QUIT THEN Some(Cmd("Quit"))
    ELSE IF cmd_id = CMD_TOGGLE_STARTUP THEN Some(Cmd("ToggleStartup"))
    ELSE IF cmd_id = CMD_EDIT_CONFIG THEN Some(Cmd("EditConfig"))
    ELSE IF cmd_id = CMD_OPEN_CONFIG_FOLDER THEN Some(Cmd("OpenConfigFolder"))
    ELSE None

\* apply_startup_pref that reports autostart enabled when the OS state cannot
\* be read.
apply_startup_pref_optimistic(pref, set, get) ==
    IF pref # None
    THEN IF set.ok THEN <<pref[1], None>> ELSE <<pref[1], Some(set.err)>>
    ELSE IF get.ok THEN <<get.val, None>> ELSE <<TRUE, Some(get.err)>>

\* apply_startup_pref that, when the preference cannot be written, reads the
\* OS state back and reports no error.
apply_startup_pref_readback(pref, set, get) ==
    IF pref # None
    THEN IF set.ok THEN <<pref[1], None>>
         ELSE <<IF get.ok THEN get.val ELSE FALSE, None>>
    ELSE IF get.ok THEN <<get.val, None>> ELSE <<FALSE, Some(get.err)>>

\* StartupManager outcomes: set is [ok, err] of set_enabled, get is
\* [ok, val, err] of is_enabled.  Returns <<start_enabled, Option<error>>>.
apply_startup_pref(pref, set, get) ==
    IF pref # None
    THEN IF set.ok THEN <<pref[1], None>> ELSE <<pref[1], Some(set.err)>>
    ELSE IF get.ok THEN <<get.val, None>> ELSE <<FALSE, Some(get.err)>>

-----------------------------------------------------------------------------
(* The environment of the tray model.                                      *)

Ok(v) == [ok |-> TRUE, val |-> v, err |-> ""]
Err(e) == [ok |-> FALSE, val |-> None, err |-> e]

\* A preset map with n presets, named by single characters in increasing
\* order (the code points from 1001 on that are not surrogates).
PresetsNamed(n) ==
    [i \in 1..n |-> <<<<IF 1000 + i < 55296 THEN 1000 + i ELSE 3048 + i>>, 15>>]

\* The preset map with NumMany presets, and the one with one preset more than
\* there are u16 ids.
ManyInputs == PresetsNamed(NumMany)
WrapInputs == PresetsNamed(U16 + 1)

TrayRule ==
    [match |-> [contains |-> Some(S_aB), index |-> None], display |-> None,
     inputs |-> RuleInputs]

\* What a config file holds besides start_with_windows, as <<default_display,
\* inputs, monitors>>: nothing; global presets and a rule that layers its own;
\* a default display; ManyInputs; WrapInputs.
ConfigBody(body) ==
    CASE body = "empty" -> <<None, EmptyMap, <<>>>>
      [] body = "rule" -> <<None, GlobalInputs, <<TrayRule>>>>
      [] body = "default" -> <<Some(S_9), GlobalInputs, <<>>>>
      [] body = "many" -> <<None, ManyInputs, <<>>>>
      [] body = "wrap" -> <<None, WrapInputs, <<>>>>

\* The config file.  kind: absent, unreadable, not a JSON object ("notjson"),
\* a JSON object whose start_with_windows is no boolean ("badflag") or that
\* does not deserialize into Config for another field ("illtyped"), or an
\* object that does ("object").  start_with_windows is the value of that key
\* where it is well typed, body names the rest of the object.
File(kind, start_with_windows, body) ==
    [kind |-> kind, start_with_windows |-> start_with_windows, body |-> body]

\* The Config a well-typed file deserializes into.
ConfigOf(file) ==
    LET b == ConfigBody(file.body)
    IN  [start_with_windows |-> file.start_with_windows, default_display |-> b[1],
         inputs |-> b[2], monitors |-> b[3]]

FileKinds == {"absent", "unreadable", "notjson", "badflag", "illtyped"}

FileStates ==
    {File(k, None, "empty") : k \in FileKinds} \cup
    {File("object", w, b) : w \in {None, Some(TRUE), Some(FALSE)},
                            b \in {"empty", "rule", "default"}}

\* The configs whose preset map is ManyInputs or WrapInputs.
ManyFileStates == {File("object", None, b) : b \in {"many", "wrap"}}

TrayDisplayLists ==
    {<<[index |-> 1, product_name |-> None, system_uuid |-> Some(S_U)]>>,
     <<[index |-> 1, product_name |-> Some(S_b), system_uuid |-> None],
       [index |-> 2, product_name |-> Some(S_Ab), system_uuid |-> Some(S_U)]>>}

\* config::load_optional on the file.
load_optional(file) ==
    IF file.kind = "absent" THEN Ok(None)
    ELSE IF file.kind = "unreadable" THEN Err("reading config")
    ELSE IF file.kind \in {"notjson", "badflag", "illtyped"} THEN Err("parsing config")
    ELSE Ok(Some(ConfigOf(file)))

\* Backend::list_displays: both backends fail when they find no monitor.
list_displays(ds, healthy) ==
    IF ~healthy THEN Err("list displays failed")
    ELSE IF ds = <<>> THEN Err("no displays found")
    ELSE Ok(ds)

\* The orders in which a HashMap may iterate: every one for a small map, the
\* stored one and a rotation of it for a large map.
Perms(m) ==
    {[i \in 1..Len(m) |-> m[f[i]]] :
        f \in {g \in [1..Len(m) -> 1..Len(m)] : \A i, j \in 1..Len(m) : g[i] = g[j] => i = j}}
IterOrders(m) ==
    IF Len(m) <= MaxPermLen THEN Perms(m)
    ELSE {m, Tail(m) \o <<Head(m)>>}

-----------------------------------------------------------------------------
(* tray/model.rs.                                                          *)

ModelUpdate(refresh_menu, refresh_tooltip, quit, open_path) ==
    [refresh_menu |-> refresh_menu, refresh_tooltip |-> refresh_tooltip,
     quit |-> quit, open_path |-> open_path]
DefaultUpdate == ModelUpdate(FALSE, FALSE, FALSE, None)

\* load_display_and_inputs, given the file and the outcome of list_displays
\* (consulted only when the config loaded): one result for each order in which
\* the resolved preset map may iterate.  loaded records what was read.
load_display_and_inputs(file, listed) ==
    LET cfg == load_optional(file)
    IN  IF ~cfg.ok
        THEN {[display_selector |-> S_1,
               inputs |-> default_inputs(CMD_BASE_INPUT),
               start_pref |-> None,
               load_error |-> Some(cfg.err),
               loaded |-> [file |-> file, listed |-> Err("not consulted")]]}
        ELSE LET pref == IF cfg.val = None THEN None ELSE cfg.val[1].start_with_windows
                 ds == IF listed.ok THEN listed.val ELSE <<>>
                 rc == resolve(cfg.val, ds, None)
             IN  {[display_selector |-> rc.display_selector,
                   inputs |-> build_inputs(it, CMD_BASE_INPUT),
                   start_pref |-> pref,
                   load_error |-> IF listed.ok THEN None ELSE Some(listed.err),
                   loaded |-> [file |-> file, listed |-> listed]] :
                        it \in IterOrders(rc.inputs)}

\* The ResolvedConfig the last load resolved (model.rs line 245); none when the
\* config failed to load.
Resolved ==
    LET cfg == load_optional(loaded.file)
    IN  IF ~cfg.ok THEN None
        ELSE Some(resolve(cfg.val, IF loaded.listed.ok THEN loaded.listed.val ELSE <<>>, None))

\* An external call as the log records it: the operation, the display selector
\* and the value it was given (None and FALSE where it takes none), and
\* whether it succeeded.
CallRec(op, sel, value, ok) == [op |-> op, sel |-> sel, value |-> value, ok |-> ok]

\* A load that lists the displays a second time when the first attempt failed.
load_calls_retry(file, listed) ==
    IF load_optional(file).ok
    THEN <<CallRec("config.load_optional", None, FALSE, TRUE),
           CallRec("Backend.list_displays", None, FALSE, listed.ok)>> \o
         (IF listed.ok THEN <<>>
          ELSE <<CallRec("Backend.list_displays", None, FALSE, FALSE)>>)
    ELSE <<CallRec("config.load_optional", None, FALSE, FALSE)>>

\* The external calls of load_display_and_inputs: the config is loaded, and
\* the displays listed when it loaded.
load_calls(file, listed) ==
    IF load_optional(file).ok
    THEN <<CallRec("config.load_optional", None, FALSE, TRUE),
           CallRec("Backend.list_displays", None, FALSE, listed.ok)>>
    ELSE <<CallRec("config.load_optional", None, FALSE, FALSE)>>

\* State::new of the Windows tray (tray/platform/windows.rs), reduced to
\* whether it returns Ok and the error it returns: its loader lists the
\* displays, then loads the config, and propagates either failure; a failure
\* of apply_startup_pref is kept as last_error.
State_new(file, listed) ==
    IF ~listed.ok THEN Err("list displays")
    ELSE IF ~load_optional(file).ok THEN Err(load_optional(file).err)
    ELSE Ok(None)

\* patch_start_with_windows that leaves a start_with_windows key the file
\* already has as it is.
patch_start_with_windows_once(file, enabled, fsOk) ==
    IF ~fsOk THEN [ok |-> FALSE, file |-> file]
    ELSE IF file.kind \in {"unreadable", "notjson"} THEN [ok |-> FALSE, file |-> file]
    ELSE [ok |-> TRUE,
          file |-> File(IF file.kind \in {"absent", "badflag"} THEN "object" ELSE file.kind,
                        IF file.start_with_windows = None THEN Some(enabled)
                        ELSE file.start_with_windows, file.body)]

\* config::patch_start_with_windows on the file; fsOk is whether the
\* directory can be created and the file written.
patch_start_with_windows(file, enabled, fsOk) ==
    IF ~fsOk THEN [ok |-> FALSE, file |-> file]
    ELSE IF file.kind \in {"unreadable", "notjson"} THEN [ok |-> FALSE, file |-> file]
    ELSE [ok |-> TRUE,
          file |-> File(IF file.kind \in {"absent", "badflag"} THEN "object" ELSE file.kind,
                        Some(enabled), file.body)]

\* The environment the tray runs in, and the config path it resolves there.
TrayEnv ==
    [MONITORCTL_CONFIG |-> None, local_exists |-> FALSE, APPDATA |-> None,
     HOME |-> Some(<<"/", "home">>)]
TrayConfigPath == resolve_config_path(TrayEnv)[1]

\* ensure_config_file_exists that writes the template whether or not a file
\* exists.
ensure_config_file_overwrites(file, fsOk) ==
    IF ~fsOk THEN [ok |-> FALSE, file |-> file]
    ELSE [ok |-> TRUE, file |-> File("object", Some(FALSE), "empty")]

\* ensure_config_file_exists whose template leaves start_with_windows out.
ensure_config_file_without_flag(file, fsOk) ==
    IF ~fsOk THEN [ok |-> FALSE, file |-> file]
    ELSE IF file.kind = "absent"
    THEN [ok |-> TRUE, file |-> File("object", None, "empty")]
    ELSE [ok |-> TRUE, file |-> file]

\* config::ensure_config_file_exists: the template is written only when no
\* file exists.
ensure_config_file_exists(file, fsOk) ==
    IF ~fsOk THEN [ok |-> FALSE, file |-> file]
    ELSE IF file.kind = "absent"
    THEN [ok |-> TRUE,
          file |-> File("object", Some(FALSE), "empty")]
    ELSE [ok |-> TRUE, file |-> file]

\* note_error that returns the update and does not store the error.
note_error_quiet(err) ==
    /\ update' = ModelUpdate(FALSE, TRUE, FALSE, None)
    /\ UNCHANGED last_error

\* TrayModel::note_error.
note_error(err) ==
    /\ last_error' = Some(err)
    /\ update' = ModelUpdate(FALSE, TRUE, FALSE, None)

\* set_input that leaves last_error alone when the backend call succeeds.
HandleInputStale(value) ==
    \E ok \in BOOLEAN :
        /\ calls' = <<CallRec("Backend.set_input", Some(display_selector), value, ok)>>
        /\ IF ok
           THEN /\ update' = ModelUpdate(FALSE, TRUE, FALSE, None)
                /\ UNCHANGED last_error
           ELSE note_error("set input")
        /\ UNCHANGED <<inputs, display_selector, start_enabled, start_pref,
                       cfgFile, displays, osEnabled, loaded>>

\* set_input that falls back to the default selector when the backend call
\* fails.
HandleInputReset(value) ==
    \E ok \in BOOLEAN :
        /\ calls' = <<CallRec("Backend.set_input", Some(display_selector), value, ok)>>
        /\ IF ok
           THEN /\ last_error' = None
                /\ update' = ModelUpdate(FALSE, TRUE, FALSE, None)
                /\ UNCHANGED display_selector
           ELSE /\ note_error("set input")
                /\ display_selector' = S_1
        /\ UNCHANGED <<inputs, start_enabled, start_pref,
                       cfgFile, displays, osEnabled, loaded>>

\* handle(Command::Input(value)): TrayModel::set_input.
HandleInput(value) ==
    \E ok \in BOOLEAN :
        /\ calls' = <<CallRec("Backend.set_input", Some(display_selector), value, ok)>>
        /\ IF ok
           THEN /\ last_error' = None
                /\ update' = ModelUpdate(FALSE, TRUE, FALSE, None)
           ELSE note_error("set input")
        /\ UNCHANGED <<inputs, display_selector, start_enabled, start_pref,
                       cfgFile, displays, osEnabled, loaded>>

\* reload_config that gives up at the first load failure, leaving the model as
\* it was.
HandleReloadFailFast ==
    \E healthy \in BOOLEAN, startupOk \in BOOLEAN :
      \E r \in load_display_and_inputs(cfgFile, list_displays(displays, healthy)) :
        LET set == IF startupOk THEN Ok(None) ELSE Err("update startup setting")
            get == IF startupOk THEN Ok(osEnabled) ELSE Err("read startup setting")
            applied == apply_startup_pref(r.start_pref, set, get)
        IN  IF r.load_error # None
            THEN /\ note_error(r.load_error[1])
                 /\ calls' = load_calls(cfgFile, list_displays(displays, healthy))
                 /\ UNCHANGED <<display_selector, inputs, loaded, start_pref,
                                start_enabled, osEnabled, cfgFile, displays>>
            ELSE
            /\ display_selector' = r.display_selector
            /\ inputs' = r.inputs
            /\ loaded' = r.loaded
            /\ start_pref' = r.start_pref
            /\ start_enabled' = applied[1]
            /\ last_error' = IF r.load_error # None THEN r.load_error ELSE applied[2]
            /\ osEnabled' = IF r.start_pref # None /\ startupOk THEN r.start_pref[1]
                            ELSE osEnabled
            /\ calls' = load_calls(cfgFile, list_displays(displays, healthy)) \o
                        <<IF r.start_pref # None
                          THEN CallRec("StartupManager.set_enabled", None, r.start_pref[1], startupOk)
                          ELSE CallRec("StartupManager.is_enabled", None, FALSE, startupOk)>>
            /\ update' = ModelUpdate(TRUE, TRUE, FALSE, None)
            /\ UNCHANGED <<cfgFile, displays>>

\* reload_config that writes "disabled" to the OS when the config carries no
\* startup preference.
HandleReloadWritesDefault ==
    \E healthy \in BOOLEAN, startupOk \in BOOLEAN :
      \E r \in load_display_and_inputs(cfgFile, list_displays(displays, healthy)) :
        LET set == IF startupOk THEN Ok(None) ELSE Err("update startup setting")
            get == IF startupOk THEN Ok(osEnabled) ELSE Err("read startup setting")
            applied == apply_startup_pref(r.start_pref, set, get)
        IN  /\ display_selector' = r.display_selector
            /\ inputs' = r.inputs
            /\ loaded' = r.loaded
            /\ start_pref' = r.start_pref
            /\ start_enabled' = applied[1]
            /\ last_error' = IF r.load_error # None THEN r.load_error ELSE applied[2]
            /\ osEnabled' = IF ~startupOk THEN osEnabled
                            ELSE IF r.start_pref # None THEN r.start_pref[1] ELSE FALSE
            /\ calls' = load_calls(cfgFile, list_displays(displays, healthy)) \o
                        <<IF r.start_pref # None
                          THEN CallRec("StartupManager.set_enabled", None, r.start_pref[1], startupOk)
                          ELSE CallRec("StartupManager.set_enabled", None, FALSE, startupOk)>>
            /\ update' = ModelUpdate(TRUE, TRUE, FALSE, None)
            /\ UNCHANGED <<cfgFile, displays>>

\* reload_config that keeps the selector and the inputs table it has when
\* the config fails to load.
HandleReloadKeeping ==
    \E healthy \in BOOLEAN, startupOk \in BOOLEAN :
      \E r \in load_display_and_inputs(cfgFile, list_displays(displays, healthy)) :
        LET set == IF startupOk THEN Ok(None) ELSE Err("update startup setting")
            get == IF startupOk THEN Ok(osEnabled) ELSE Err("read startup setting")
            applied == apply_startup_pref(r.start_pref, set, get)
        IN  /\ display_selector' = IF load_optional(cfgFile).ok THEN r.display_selector
                                    ELSE display_selector
            /\ inputs' = IF load_optional(cfgFile).ok THEN r.inputs ELSE inputs
            /\ loaded' = r.loaded
            /\ start_pref' = r.start_pref
            /\ start_enabled' = applied[1]
            /\ last_error' = IF r.load_error # None THEN r.load_error ELSE applied[2]
            /\ osEnabled' = IF r.start_pref # None /\ startupOk THEN r.start_pref[1]
                            ELSE osEnabled
            /\ calls' = load_calls(cfgFile, list_displays(displays, healthy)) \o
                        <<IF r.start_pref # None
                          THEN CallRec("StartupManager.set_enabled", None, r.start_pref[1], startupOk)
                          ELSE CallRec("StartupManager.is_enabled", None, FALSE, startupOk)>>
            /\ update' = ModelUpdate(TRUE, TRUE, FALSE, None)
            /\ UNCHANGED <<cfgFile, displays>>

\* handle(Command::Reload): TrayModel::reload_config.
HandleReload ==
    \E healthy \in BOOLEAN, startupOk \in BOOLEAN :
      \E r \in load_display_and_inputs(cfgFile, list_displays(displays, healthy)) :
        LET set == IF startupOk THEN Ok(None) ELSE Err("update startup setting")
            get == IF startupOk THEN Ok(osEnabled) ELSE Err("read startup setting")
            applied == apply_startup_pref(r.start_pref, set, get)
        IN  /\ display_selector' = r.display_selector
            /\ inputs' = r.inputs
            /\ loaded' = r.loaded
            /\ start_pref' = r.start_pref
            /\ start_enabled' = applied[1]
            /\ last_error' = IF r.load_error # None THEN r.load_error ELSE applied[2]
            /\ osEnabled' = IF r.start_pref # None /\ startupOk THEN r.start_pref[1]
                            ELSE osEnabled
            /\ calls' = load_calls(cfgFile, list_displays(displays, healthy)) \o
                        <<IF r.start_pref # None
                          THEN CallRec("StartupManager.set_enabled", None, r.start_pref[1], startupOk)
                          ELSE CallRec("StartupManager.is_enabled", None, FALSE, startupOk)>>
            /\ update' = ModelUpdate(TRUE, TRUE, FALSE, None)
            /\ UNCHANGED <<cfgFile, displays>>

\* toggle_startup that flips start_enabled before it calls set_enabled.
HandleToggleStartupEager ==
    \E startupOk \in BOOLEAN, fsOk \in BOOLEAN :
        LET next == ~start_enabled
            patched == patch_start_with_windows(cfgFile, next, fsOk)
        IN  /\ start_enabled' = next
            /\ IF ~startupOk
               THEN /\ note_error("update startup setting")
                    /\ calls' = <<CallRec("StartupManager.set_enabled", None, next, FALSE)>>
                    /\ UNCHANGED <<osEnabled, cfgFile>>
               ELSE /\ osEnabled' = next
                    /\ calls' = <<CallRec("StartupManager.set_enabled", None, next, TRUE),
                                  CallRec("config.patch_start_with_windows", None, next, patched.ok)>>
                    /\ cfgFile' = patched.file
                    /\ IF patched.ok
                       THEN /\ last_error' = None
                            /\ update' = ModelUpdate(TRUE, TRUE, FALSE, None)
                       ELSE note_error("update config")
            /\ UNCHANGED <<inputs, display_selector, start_pref, displays, loaded>>

\* toggle_startup that writes the config before it calls set_enabled.
HandleToggleStartupConfigFirst ==
    \E startupOk \in BOOLEAN, fsOk \in BOOLEAN :
        LET next == ~start_enabled
            patched == patch_start_with_windows(cfgFile, next, fsOk)
        IN  /\ IF ~patched.ok
               THEN /\ note_error("update config")
                    /\ calls' = <<CallRec("config.patch_start_with_windows", None, next, FALSE)>>
                    /\ UNCHANGED <<start_enabled, osEnabled, cfgFile>>
               ELSE /\ cfgFile' = patched.file
                    /\ calls' = <<CallRec("config.patch_start_with_windows", None, next, TRUE),
                                  CallRec("StartupManager.set_enabled", None, next, startupOk)>>
                    /\ IF startupOk
                       THEN /\ osEnabled' = next
                            /\ start_enabled' = next
                            /\ last_error' = None
                            /\ update' = ModelUpdate(TRUE, TRUE, FALSE, None)
                       ELSE /\ note_error("update startup setting")
                            /\ UNCHANGED <<start_enabled, osEnabled>>
            /\ UNCHANGED <<inputs, display_selector, start_pref, displays, loaded>>

\* toggle_startup that restores the OS autostart state when the config write
\* fails.
HandleToggleStartupRollback ==
    \E startupOk \in BOOLEAN, fsOk \in BOOLEAN :
        LET next == ~start_enabled
            patched == patch_start_with_windows(cfgFile, next, fsOk)
        IN  /\ IF ~startupOk
               THEN /\ note_error("update startup setting")
                    /\ calls' = <<CallRec("StartupManager.set_enabled", None, next, FALSE)>>
                    /\ UNCHANGED <<start_enabled, osEnabled, cfgFile>>
               ELSE /\ osEnabled' = IF patched.ok THEN next ELSE osEnabled
                    /\ calls' = <<CallRec("StartupManager.set_enabled", None, next, TRUE),
                                  CallRec("config.patch_start_with_windows", None, next, patched.ok)>>
                    /\ cfgFile' = patched.file
                    /\ IF patched.ok
                       THEN /\ start_enabled' = next
                            /\ last_error' = None
                            /\ update' = ModelUpdate(TRUE, TRUE, FALSE, None)
                       ELSE /\ note_error("update config")
                            /\ UNCHANGED start_enabled
            /\ UNCHANGED <<inputs, display_selector, start_pref, displays, loaded>>

\* handle(Command::ToggleStartup): TrayModel::toggle_startup.
HandleToggleStartup ==
    \E startupOk \in BOOLEAN, fsOk \in BOOLEAN :
        LET next == ~start_enabled
            patched == patch_start_with_windows(cfgFile, next, fsOk)
        IN  /\ IF ~startupOk
               THEN /\ note_error("update startup setting")
                    /\ calls' = <<CallRec("StartupManager.set_enabled", None, next, FALSE)>>
                    /\ UNCHANGED <<start_enabled, osEnabled, cfgFile>>
               ELSE /\ osEnabled' = next
                    /\ calls' = <<CallRec("StartupManager.set_enabled", None, next, TRUE),
                                  CallRec("config.patch_start_with_windows", None, next, patched.ok)>>
                    /\ cfgFile' = patched.file
                    /\ IF patched.ok
                       THEN /\ start_enabled' = next
                            /\ last_error' = None
                            /\ update' = ModelUpdate(TRUE, TRUE, FALSE, None)
                       ELSE /\ note_error("update config")
                            /\ UNCHANGED start_enabled
            /\ UNCHANGED <<inputs, display_selector, start_pref, displays, loaded>>

\* An EditConfig arm that clears the stored error when it succeeds.
HandleEditConfigClearing ==
    \E fsOk \in BOOLEAN :
        LET ensured == ensure_config_file_exists(cfgFile, fsOk)
        IN  /\ cfgFile' = ensured.file
            /\ calls' = <<CallRec("config.ensure_config_file_exists", None, FALSE, ensured.ok)>>
            /\ IF ensured.ok
               THEN /\ update' = ModelUpdate(FALSE, FALSE, FALSE, Some(TrayConfigPath))
                    /\ last_error' = None
               ELSE note_error("ensure config exists")
            /\ UNCHANGED <<inputs, display_selector, start_enabled, start_pref,
                           displays, osEnabled, loaded>>

\* handle(Command::EditConfig): TrayModel::edit_config.
HandleEditConfig ==
    \E fsOk \in BOOLEAN :
        LET ensured == ensure_config_file_exists(cfgFile, fsOk)
        IN  /\ cfgFile' = ensured.file
            /\ calls' = <<CallRec("config.ensure_config_file_exists", None, FALSE, ensured.ok)>>
            /\ IF ensured.ok
               THEN /\ update' = ModelUpdate(FALSE, FALSE, FALSE, Some(TrayConfigPath))
                    /\ UNCHANGED last_error
               ELSE note_error("ensure config exists")
            /\ UNCHANGED <<inputs, display_selector, start_enabled, start_pref,
                           displays, osEnabled, loaded>>

\* handle(Command::OpenConfigFolder): TrayModel::open_config_folder.  pathOk is
\* whether resolve_config_path yields a path that has a parent: it may yield
\* none only when no file is found, and a path without a parent (a root) is
\* not a readable file.
HandleOpenConfigFolder ==
    \E pathOk \in BOOLEAN :
        /\ ~pathOk => cfgFile.kind \in {"absent", "unreadable"}
        /\ calls' = <<CallRec("config.resolve_config_path", None, FALSE, pathOk)>>
        /\ IF pathOk
           THEN /\ update' = ModelUpdate(FALSE, FALSE, FALSE, parent(TrayConfigPath))
                /\ UNCHANGED last_error
           ELSE note_error("no config directory")
        /\ UNCHANGED <<inputs, display_selector, start_enabled, start_pref,
                       cfgFile, displays, osEnabled, loaded>>

\* A Quit arm that also clears the stored error.
HandleQuitClearing ==
    /\ update' = ModelUpdate(FALSE, FALSE, TRUE, None)
    /\ calls' = <<>>
    /\ last_error' = None
    /\ UNCHANGED <<inputs, display_selector, start_enabled, start_pref,
                   cfgFile, displays, osEnabled, loaded>>

\* handle(Command::Quit).
HandleQuit ==
    /\ update' = ModelUpdate(FALSE, FALSE, TRUE, None)
    /\ calls' = <<>>
    /\ UNCHANGED <<inputs, display_selector, last_error, start_enabled, start_pref,
                   cfgFile, displays, osEnabled, loaded>>

\* TrayModel::handle.
handle(cmd) ==
    /\ lastCmd' = cmd
    /\ \/ cmd.tag = "Input" /\ HandleInput(cmd.value)
       \/ cmd.tag = "Reload" /\ HandleReload
       \/ cmd.tag = "ToggleStartup" /\ HandleToggleStartup
       \/ cmd.tag = "EditConfig" /\ HandleEditConfig
       \/ cmd.tag = "OpenConfigFolder" /\ HandleOpenConfigFolder
       \/ cmd.tag = "Quit" /\ HandleQuit

\* Whether every call of a log succeeded; the last two entries of a sequence.
Succeeded(log) == \A i \in 1..Len(log) : log[i].ok
LastTwo(s) == IF Len(s) <= 2 THEN s ELSE SubSeq(s, Len(s) - 1, Len(s))

\* The ids the UI may deliver: menu entries, and stray ids.
CmdIds ==
    {CMD_BASE_INPUT, CMD_BASE_INPUT + 1, CMD_BASE_INPUT + 2, CMD_RELOAD, CMD_QUIT,
     CMD_TOGGLE_STARTUP, CMD_EDIT_CONFIG, CMD_OPEN_CONFIG_FOLDER, 1999, 9999}

\* The UI delivers a command id; it is decoded against the current table and
\* the command handled.  An id that decodes to nothing is dropped.
Dispatch ==
    /\ lastCmd.tag # "Quit"
    /\ \E cmd_id \in CmdIds :
        LET c == decode(cmd_id, inputs)
        IN  /\ c # None
            /\ handle(c[1])
            /\ toggles' = IF c[1].tag = "ToggleStartup" /\ Succeeded(calls')
                          THEN LastTwo(Append(toggles, osEnabled))
                          ELSE <<>>
    /\ winState' = None
    /\ UNCHANGED pureVars

\* The environment changes between commands.
Observed ==
    /\ lastCmd' = NoCmd
    /\ update' = DefaultUpdate
    /\ calls' = <<>>
    /\ toggles' = <<>>
    /\ winState' = None
ModelFields == <<inputs, display_selector, last_error, start_enabled, start_pref, loaded>>

EditFile ==
    /\ lastCmd.tag # "Quit"
    /\ \E f \in FileStates : f # cfgFile /\ cfgFile' = f
    /\ Observed
    /\ UNCHANGED <<ModelFields, displays, osEnabled, pureVars>>

Replug ==
    /\ lastCmd.tag # "Quit"
    /\ \E ds \in TrayDisplayLists : ds # displays /\ displays' = ds
    /\ Observed
    /\ UNCHANGED <<ModelFields, cfgFile, osEnabled, pureVars>>

OsAutostartChange ==
    /\ lastCmd.tag # "Quit"
    /\ osEnabled' = ~osEnabled
    /\ Observed
    /\ UNCHANGED <<ModelFields, cfgFile, displays, pureVars>>

\* The preset maps build_inputs is applied to, in every order they may
\* iterate: up to MaxPresets of these names, ManyInputs and WrapInputs.
PresetNames == {S_empty, S_dp, S_dp1, S_usb_c, S_HDMI, S_hdmi1}
PresetValues == {15, 26}
PresetSeqs ==
    {m \in SeqsUpTo(PresetNames \X PresetValues, MaxPresets) :
        \A i, j \in 1..Len(m) : m[i][1] = m[j][1] => i = j}

CallBuildInputs ==
    /\ call = NoCall
    /\ \E ins \in PresetSeqs \cup IterOrders(ManyInputs) \cup IterOrders(WrapInputs) :
        /\ call' = [fn |-> "build_inputs", inputs |-> ins, base_cmd |-> CMD_BASE_INPUT]
        /\ ret' = build_inputs(ins, CMD_BASE_INPUT)
        /\ UNCHANGED trayVars

\* The tables decode is given: what build_inputs makes of no presets, of
\* three presets and of NumMany presets.
DecodeTables ==
    {build_inputs(EmptyMap, CMD_BASE_INPUT),
     build_inputs(<<<<S_hdmi1, 18>>, <<S_dp1, 17>>, <<S_usb_c, 26>>>>, CMD_BASE_INPUT),
     build_inputs(ManyInputs, CMD_BASE_INPUT)}

CallDecode ==
    /\ call = NoCall
    /\ \E table \in DecodeTables :
        \E cmd_id \in IF Cardinality(DOMAIN table) <= MaxPresets THEN 0..(U16 - 1) ELSE CmdIds :
            /\ call' = [fn |-> "decode", cmd_id |-> cmd_id, table |-> table]
            /\ ret' = decode(cmd_id, table)
            /\ UNCHANGED trayVars

\* The state TrayModel::new leaves, in an environment whose config file is
\* one of files; lastCmd marks it as the state after construction.
TrayNew(files) ==
    /\ cfgFile \in files
    /\ displays \in TrayDisplayLists
    /\ osEnabled \in BOOLEAN
    /\ \E healthy \in BOOLEAN :
        \E r \in load_display_and_inputs(cfgFile, list_displays(displays, healthy)) :
            /\ inputs = r.inputs
            /\ display_selector = r.display_selector
            /\ last_error = r.load_error
            /\ start_enabled = unwrap_or(r.start_pref, FALSE)
            /\ start_pref = r.start_pref
            /\ loaded = r.loaded
            /\ calls = load_calls(cfgFile, list_displays(displays, healthy))
            /\ winState = Some(State_new(cfgFile, list_displays(displays, healthy)))
    /\ lastCmd = Cmd("New")
    /\ update = DefaultUpdate
    /\ toggles = <<>>

Init ==
    /\ call = NoCall
    /\ ret = None
    /\ TrayNew(FileStates)

Next == Dispatch \/ EditFile \/ Replug \/ OsAutostartChange

Spec == Init /\ [][Next]_vars

\* The tray started on a config of ManyFileStates, the file left alone.
InitMany ==
    /\ call = NoCall
    /\ ret = None
    /\ TrayNew(ManyFileStates)

NextMany == Dispatch \/ Replug \/ OsAutostartChange

SpecMany == InitMany /\ [][NextMany]_vars

-----------------------------------------------------------------------------
(* config.rs: patch_start_with_windows on the JSON document itself.  A     *)
(* file is absent, not valid JSON ("invalid"), valid JSON whose root is no *)
(* object ("array"), or an object, given by its members: a function from   *)
(* top-level keys to values, values written as JSON text.                  *)

JsonFile(kind, members) == [kind |-> kind, members |-> members]
NoMembers == [k \in {} |-> ""]
JsonBool(b) == IF b THEN "true" ELSE "false"

\* Value::Object's insert: the key is added or its value replaced.
json_insert(members, key, value) ==
    [k \in DOMAIN members \cup {key} |-> IF k = key THEN value ELSE members[k]]

\* patch_start_with_windows that writes back only the keys Config declares.
patch_start_with_windows_json_known(doc, enabled, fsOk) ==
    IF ~fsOk \/ doc.kind \in {"invalid", "array"} THEN [ok |-> FALSE, file |-> doc]
    ELSE LET obj == IF doc.kind = "absent" THEN NoMembers ELSE doc.members
             all == json_insert(obj, "start_with_windows", JsonBool(enabled))
             known == DOMAIN all \cap {"start_with_windows", "default_display",
                                      "inputs", "monitors"}
         IN  [ok |-> TRUE, file |-> JsonFile("object", [k \in known |-> all[k]])]

\* patch_start_with_windows: the document is read (the empty object when
\* there is no file), must be an object, gets the key inserted and is
\* written back whole.  fsOk is whether the directory can be created and the
\* file written.
patch_start_with_windows_json(doc, enabled, fsOk) ==
    IF ~fsOk THEN [ok |-> FALSE, file |-> doc]
    ELSE IF doc.kind \in {"invalid", "array"} THEN [ok |-> FALSE, file |-> doc]
    ELSE LET obj == IF doc.kind = "absent" THEN NoMembers ELSE doc.members
         IN  [ok |-> TRUE,
              file |-> JsonFile("object",
                                json_insert(obj, "start_with_windows", JsonBool(enabled)))]

\* The documents the patch is applied to: for each key, absent or one of a
\* few values; "note" is a key Config does not declare.
JsonKeyValues ==
    [start_with_windows |-> {"true", "false", "\"yes\""},
     inputs |-> {"{}", "{\"dp1\": 15}"},
     default_display |-> {"\"2\""},
     note |-> {"\"desk\"", "[1]"}]
JsonKeys == {"start_with_windows", "inputs", "default_display", "note"}
JsonFiles ==
    {JsonFile(k, NoMembers) : k \in {"absent", "invalid", "array"}} \cup
    {JsonFile("object", m) :
        m \in UNION {{f \in [K -> UNION {JsonKeyValues[k] : k \in JsonKeys}] :
                          \A k \in K : f[k] \in JsonKeyValues[k]} : K \in SUBSET JsonKeys}}

CallPatchJson ==
    /\ call = NoCall
    /\ \E doc \in JsonFiles, enabled \in BOOLEAN, fsOk \in BOOLEAN :
        /\ call' = [fn |-> "patch_start_with_windows", doc |-> doc,
                    enabled |-> enabled, fsOk |-> fsOk]
        /\ ret' = patch_start_with_windows_json(doc, enabled, fsOk)
    /\ UNCHANGED trayVars

\* The pure functions applied to arguments drawn from the sets above; the
\* tray model sits in the state new() leaves when there is no config file.
InitPure ==
    /\ call = NoCall
    /\ ret = None
    /\ TrayNew({File("absent", None, "empty")})
    /\ ~osEnabled
    /\ last_error = None
    /\ Len(displays) = 1

NextPure ==
    \/ CallResolve \/ CallMatchDisplay \/ CallSelectorForDisplay
    \/ CallBuildInputs \/ CallDecode \/ CallResolveConfigPath
    \/ CallParseInputValue \/ CallWindowsInput \/ CallPatchJson

SpecPure == InitPure /\ [][NextPure]_vars

-----------------------------------------------------------------------------
(* The tray started with no config file while the OS has autostart         *)
(* enabled; the user picks "Edit config" and "Reload" and edits nothing,   *)
(* and nothing else changes the file or the OS autostart state.            *)

InitEdit ==
    /\ call = NoCall
    /\ ret = None
    /\ TrayNew({File("absent", None, "empty")})
    /\ osEnabled

\* The menu delivers CMD_EDIT_CONFIG.
DeliverEditConfig ==
    /\ lastCmd' = Cmd("EditConfig")
    /\ HandleEditConfig
    /\ toggles' = <<>>
    /\ winState' = None
    /\ UNCHANGED pureVars

\* The menu delivers CMD_RELOAD.
DeliverReload ==
    /\ lastCmd' = Cmd("Reload")
    /\ HandleReload
    /\ toggles' = <<>>
    /\ winState' = None
    /\ UNCHANGED pureVars

NextEdit == DeliverEditConfig \/ DeliverReload \/ Replug

SpecEdit == InitEdit /\ [][NextEdit]_vars

-----------------------------------------------------------------------------
(* The tray with only "Start with Windows" and "Reload" picked, and no     *)
(* change to the file, the displays or the OS autostart state from         *)
(* outside.  call holds, after a successful ToggleStartup, the value b it  *)
(* set start_enabled to, and whether a Reload has followed it directly.    *)

\* The menu delivers CMD_TOGGLE_STARTUP.
DeliverToggleStartup ==
    /\ lastCmd' = Cmd("ToggleStartup")
    /\ HandleToggleStartup
    /\ call' = IF Succeeded(calls')
               THEN [fn |-> "toggle_then_reload", b |-> start_enabled', reloaded |-> FALSE]
               ELSE NoCall
    /\ toggles' = <<>>
    /\ winState' = None
    /\ UNCHANGED ret

\* The menu delivers CMD_RELOAD.
DeliverReloadAfter ==
    /\ lastCmd' = Cmd("Reload")
    /\ HandleReload
    /\ call' = IF call.fn = "toggle_then_reload" /\ ~call.reloaded
               THEN [call EXCEPT !.reloaded = TRUE]
               ELSE NoCall
    /\ toggles' = <<>>
    /\ winState' = None
    /\ UNCHANGED ret

NextToggle == DeliverToggleStartup \/ DeliverReloadAfter

SpecToggle == Init /\ [][NextToggle]_vars

-----------------------------------------------------------------------------
(* tray/platform/macos.rs: the State of the macOS tray next to TrayModel.  *)
(* Both start from the same state and are given the same menu tags; a call *)
(* both make has the same outcome for both.  ret holds the macOS State;    *)
(* the file, the displays and the OS autostart state are those the         *)
(* TrayModel handler finds.                                                *)

MacState(ins, sel, start, err) ==
    [inputs |-> ins, display_selector |-> sel, start_at_login |-> start, last_error |-> err]
MacResult(ok, st, context) == [ok |-> ok, st |-> st, context |-> context]

\* The outcomes handle_cmd may meet: of backend.set_input, of the load (one
\* result of load_display_and_inputs), of autostart::set_enabled and
\* is_enabled, and of config::patch_start_with_windows.
MacOutcomes(setInputOk, r, set, get, patchOk) ==
    [setInputOk |-> setInputOk, r |-> r, set |-> set, get |-> get, patchOk |-> patchOk]

\* The outcome of a call the handler does not make.
NotConsulted == Err("not consulted")

\* State::set_input.
mac_set_input(st, o) ==
    IF o.setInputOk THEN MacResult(TRUE, [st EXCEPT !.last_error = None], "")
    ELSE MacResult(FALSE, st, "set input")

\* State::reload_config; rebuild_menu always returns Ok.
mac_reload_config(st, o) ==
    LET applied == apply_startup_pref(o.r.start_pref, o.set, o.get)
    IN  MacResult(TRUE,
                  MacState(o.r.inputs, o.r.display_selector, applied[1],
                           IF o.r.load_error # None THEN o.r.load_error ELSE applied[2]),
                  "")

\* State::toggle_start_at_login.
toggle_start_at_login(st, o) ==
    IF ~o.set.ok \/ ~o.patchOk THEN MacResult(FALSE, st, "toggle startup")
    ELSE MacResult(TRUE, [st EXCEPT !.start_at_login = ~st.start_at_login,
                                    !.last_error = None], "")

\* State::handle_cmd, for the tags of the presets, of "Reload config" and of
\* "Start at login": the fixed ids are matched first, the table last.
handle_cmd(st, cmd, o) ==
    IF cmd = CMD_QUIT THEN MacResult(TRUE, st, "")
    ELSE IF cmd = CMD_RELOAD THEN mac_reload_config(st, o)
    ELSE IF cmd = CMD_TOGGLE_STARTUP THEN toggle_start_at_login(st, o)
    ELSE IF cmd \in DOMAIN st.inputs THEN mac_set_input(st, o)
    ELSE MacResult(TRUE, st, "")

\* on_menu_item: the error handle_cmd returns becomes last_error.
on_menu_item(st, cmd, o) ==
    LET h == handle_cmd(st, cmd, o)
    IN  IF h.ok THEN h.st ELSE [h.st EXCEPT !.last_error = Some(h.context)]

\* The tags delivered: the first presets, the preset numbered CMD_RELOAD
\* when there are that many, "Reload config" and "Start at login".
MacTags == {CMD_BASE_INPUT, CMD_BASE_INPUT + 1, CMD_BASE_INPUT + 2, CMD_RELOAD,
            CMD_TOGGLE_STARTUP}

\* The tray started on one of FileStates or on the config with ManyInputs,
\* the macOS State equal to the TrayModel.
InitMac ==
    /\ call = NoCall
    /\ TrayNew(FileStates \cup {File("object", None, "many")})
    /\ ret = MacState(inputs, display_selector, start_enabled, last_error)

\* What both do not share in an action of SpecMac.
MacGhosts == toggles' = <<>> /\ winState' = None /\ UNCHANGED call

\* A tag TrayModel decodes to Input(v) is delivered to both.  The macOS
\* handler meets the outcome of set_input TrayModel met, and any outcome of
\* the calls TrayModel did not make.
MacDeliverInput ==
    \E cmd_id \in MacTags \cap DOMAIN inputs :
        /\ lastCmd' = decode(cmd_id, inputs)[1]
        /\ HandleInput(decode(cmd_id, inputs)[1].value)
        /\ MacGhosts
        /\ IF cmd_id \in {CMD_RELOAD, CMD_TOGGLE_STARTUP}
           THEN \E healthy \in BOOLEAN, startupOk \in BOOLEAN :
                LET set == IF startupOk THEN Ok(None) ELSE Err("update startup setting")
                    get == IF startupOk THEN Ok(osEnabled) ELSE Err("read startup setting")
                IN  \E r \in load_display_and_inputs(
                                  cfgFile, list_displays(displays, healthy)) :
                        ret' = on_menu_item(ret, cmd_id,
                                            MacOutcomes(calls'[1].ok, r, set, get, startupOk))
           ELSE ret' = on_menu_item(ret, cmd_id,
                                    MacOutcomes(calls'[1].ok, NotConsulted, NotConsulted,
                                                NotConsulted, FALSE))

\* CMD_RELOAD is delivered to both while TrayModel decodes it to Reload.
MacDeliverReload ==
    /\ decode(CMD_RELOAD, inputs) = Some(Cmd("Reload"))
    /\ lastCmd' = Cmd("Reload")
    /\ HandleReload
    /\ MacGhosts
    /\ \E healthy \in BOOLEAN, startupOk \in BOOLEAN :
        LET listed == list_displays(displays, healthy)
            set == IF startupOk THEN Ok(None) ELSE Err("update startup setting")
            get == IF startupOk THEN Ok(osEnabled) ELSE Err("read startup setting")
        IN  /\ SubSeq(calls', 1, Len(calls') - 1) = load_calls(cfgFile, listed)
            /\ calls'[Len(calls')].ok = startupOk
            /\ \E r \in load_display_and_inputs(cfgFile, listed) :
                  ret' = on_menu_item(ret, CMD_RELOAD,
                                      MacOutcomes(FALSE, r, set, get, FALSE))

\* CMD_TOGGLE_STARTUP is delivered to both.
MacDeliverToggle ==
    /\ decode(CMD_TOGGLE_STARTUP, inputs) = Some(Cmd("ToggleStartup"))
    /\ lastCmd' = Cmd("ToggleStartup")
    /\ HandleToggleStartup
    /\ MacGhosts
    /\ LET set == IF calls'[1].ok THEN Ok(None) ELSE Err("update launch agent")
       IN  ret' = on_menu_item(ret, CMD_TOGGLE_STARTUP,
                               MacOutcomes(FALSE, NotConsulted, set, NotConsulted,
                                           Len(calls') = 2 /\ calls'[2].ok))

NextMac ==
    \/ MacDeliverInput \/ MacDeliverReload \/ MacDeliverToggle
    \/ OsAutostartChange

SpecMac == InitMac /\ [][NextMac]_vars

-----------------------------------------------------------------------------
(* main.rs: the set-input command of the CLI, one step at a time.  call    *)
(* holds the invocation and the position in main, calls the steps taken so *)
(* far, ret what was printed to standard output and the exit code.         *)

CliFiles ==
    {File("absent", None, "empty"), File("notjson", None, "empty"),
     File("object", None, "rule"), File("object", None, "default")}
CliValues == {S_26, S_dp1, S_hdmi1, S_65536, S_empty}

CliOut(stdout, exit) == [stdout |-> stdout, exit |-> exit]
CliAt(pc) == call.fn = "cli_set_input" /\ call.pc = pc
CliGoto(pc) == call' = [call EXCEPT !.pc = pc]
\* main returns Err: the error chain goes to standard error, the exit code is 1.
CliFail == CliGoto("done") /\ ret' = CliOut(ret.stdout, Some(1))
CliTrayUnchanged ==
    UNCHANGED <<inputs, display_selector, last_error, start_enabled, start_pref,
                cfgFile, displays, osEnabled, lastCmd, update, loaded, toggles,
                winState>>

\* What the command has computed from its arguments once it has got there.
CliResolved ==
    resolve(load_optional(call.file).val,
            list_displays(call.displays, call.listOk).val, call.display)
CliParsed == parse_input_value(call.value, CliResolved)

\* Cli::parse: `monitorctl set-input [--display D] VALUE` is started.
CliStart ==
    /\ call = NoCall
    /\ \E value \in CliValues, display \in DisplayArgs, file \in CliFiles,
          ds \in TrayDisplayLists, backendOk \in BOOLEAN, listOk \in BOOLEAN,
          setOk \in BOOLEAN :
        call' = [fn |-> "cli_set_input", pc |-> "backend", value |-> value,
                 display |-> display, file |-> file, displays |-> ds,
                 backendOk |-> backendOk, listOk |-> listOk, setOk |-> setOk]
    /\ ret' = CliOut(<<>>, None)
    /\ calls' = <<>>
    /\ CliTrayUnchanged

\* platform::backend()?
CliBackend ==
    /\ CliAt("backend")
    /\ IF call.backendOk THEN CliGoto("list") /\ UNCHANGED ret ELSE CliFail
    /\ UNCHANGED calls
    /\ CliTrayUnchanged

\* backend.list_displays().context(..)?
CliListDisplays ==
    /\ CliAt("list")
    /\ LET listed == list_displays(call.displays, call.listOk)
       IN  /\ calls' = Append(calls, CallRec("Backend.list_displays", None, FALSE, listed.ok))
           /\ IF listed.ok THEN CliGoto("load") /\ UNCHANGED ret ELSE CliFail
    /\ CliTrayUnchanged

\* config::load_optional()?
CliLoadConfig ==
    /\ CliAt("load")
    /\ LET cfg == load_optional(call.file)
       IN  /\ calls' = Append(calls, CallRec("config.load_optional", None, FALSE, cfg.ok))
           /\ IF cfg.ok THEN CliGoto("resolve") /\ UNCHANGED ret ELSE CliFail
    /\ CliTrayUnchanged

\* config::resolve(..)
CliResolve ==
    /\ CliAt("resolve")
    /\ calls' = Append(calls, CallRec("config.resolve", call.display, FALSE, TRUE))
    /\ CliGoto("parse")
    /\ UNCHANGED ret
    /\ CliTrayUnchanged

\* A parse step that goes on with the value 0 when the value is neither a
\* number nor a preset.
CliParseLenient ==
    /\ CliAt("parse")
    /\ calls' = Append(calls, CallRec("config.parse_input_value", None, FALSE, CliParsed.ok))
    /\ CliGoto("set")
    /\ UNCHANGED ret
    /\ CliTrayUnchanged

\* config::parse_input_value(&value, &resolved)?
CliParse ==
    /\ CliAt("parse")
    /\ calls' = Append(calls, CallRec("config.parse_input_value", None, FALSE, CliParsed.ok))
    /\ IF CliParsed.ok THEN CliGoto("set") /\ UNCHANGED ret ELSE CliFail
    /\ CliTrayUnchanged

\* backend.set_input(&resolved.display_selector, value).with_context(..)?
CliSetInput ==
    /\ CliAt("set")
    /\ calls' = Append(calls, CallRec("Backend.set_input", Some(CliResolved.display_selector),
                                      CliParsed.val, call.setOk))
    /\ IF call.setOk THEN CliGoto("print") /\ UNCHANGED ret ELSE CliFail
    /\ CliTrayUnchanged

\* println!("{value}"), then Ok(()): exit code 0.
CliPrint ==
    /\ CliAt("print")
    /\ ret' = CliOut(Append(ret.stdout, to_string(CliParsed.val)), Some(0))
    /\ CliGoto("done")
    /\ UNCHANGED calls
    /\ CliTrayUnchanged

NextCli ==
    \/ CliStart \/ CliBackend \/ CliListDisplays \/ CliLoadConfig \/ CliResolve
    \/ CliParse \/ CliSetInput \/ CliPrint

SpecCli == InitPure /\ [][NextCli]_vars

-----------------------------------------------------------------------------
(* config.rs: patch_start_with_windows one file operation at a time, with  *)
(* another writer of the same file.  call holds the invocation, its        *)
(* position, the document it read (root) and the last file another writer  *)
(* stored between the read and the write (edited); ret is the Result.      *)

PatchAt(pc) == call.fn = "patch_start_with_windows" /\ call.pc = pc
PatchReturn(result) == call' = [call EXCEPT !.pc = "done"] /\ ret' = result
PatchOthersUnchanged ==
    UNCHANGED <<inputs, display_selector, last_error, start_enabled, start_pref,
                displays, osEnabled, lastCmd, update, loaded, calls, toggles,
                winState>>

\* read_json_or_empty_object: the document in the file, the empty object when
\* there is no file.
read_json_or_empty_object(file) ==
    IF file.kind = "absent" THEN Ok(File("object", None, "empty"))
    ELSE IF file.kind = "unreadable" THEN Err("reading config")
    ELSE Ok(file)

\* obj.insert("start_with_windows", Value::Bool(enabled)) on the document.
insert_start_with_windows(root, enabled) ==
    File(IF root.kind = "badflag" THEN "object" ELSE root.kind, Some(enabled), root.body)

\* patch_start_with_windows(enabled) is called; the path resolves.
PatchStart ==
    /\ call = NoCall
    /\ \E enabled \in BOOLEAN :
        call' = [fn |-> "patch_start_with_windows", pc |-> "mkdir",
                 enabled |-> enabled, root |-> None, edited |-> None]
    /\ UNCHANGED <<ret, cfgFile>>
    /\ PatchOthersUnchanged

\* fs::create_dir_all(parent)?
PatchCreateDir ==
    /\ PatchAt("mkdir")
    /\ \E dirOk \in BOOLEAN :
        IF dirOk THEN call' = [call EXCEPT !.pc = "read"] /\ UNCHANGED ret
        ELSE PatchReturn(Err("create config dir"))
    /\ UNCHANGED cfgFile
    /\ PatchOthersUnchanged

\* read_json_or_empty_object(&path)?, then root.as_object_mut().ok_or_else(..)?
PatchRead ==
    /\ PatchAt("read")
    /\ LET root == read_json_or_empty_object(cfgFile)
       IN  IF ~root.ok THEN PatchReturn(root)
           ELSE IF root.val.kind = "notjson"
           THEN PatchReturn(Err("config root must be a JSON object"))
           ELSE call' = [call EXCEPT !.pc = "write", !.root = Some(root.val)] /\ UNCHANGED ret
    /\ UNCHANGED cfgFile
    /\ PatchOthersUnchanged

\* A write that reads the file again and sets the key in what it finds.
PatchWriteFresh ==
    /\ PatchAt("write")
    /\ \E writeOk \in BOOLEAN :
        IF writeOk
        THEN /\ cfgFile' = insert_start_with_windows(
                               IF read_json_or_empty_object(cfgFile).ok
                               THEN read_json_or_empty_object(cfgFile).val
                               ELSE call.root[1], call.enabled)
             /\ PatchReturn(Ok(TrayConfigPath))
        ELSE UNCHANGED cfgFile /\ PatchReturn(Err("write"))
    /\ PatchOthersUnchanged

\* obj.insert(..), serialize, fs::write(&path, ..)?, Ok(path): the whole
\* document as read, with the key set, replaces the file.
PatchWrite ==
    /\ PatchAt("write")
    /\ \E writeOk \in BOOLEAN :
        IF writeOk
        THEN /\ cfgFile' = insert_start_with_windows(call.root[1], call.enabled)
             /\ PatchReturn(Ok(TrayConfigPath))
        ELSE UNCHANGED cfgFile /\ PatchReturn(Err("write"))
    /\ PatchOthersUnchanged

\* Another process stores a different file while no patch runs or while one
\* is under way.
ExternalWrite ==
    /\ call = NoCall \/ (call.fn = "patch_start_with_windows" /\ call.pc # "done")
    /\ \E f \in FileStates :
        /\ f # cfgFile
        /\ cfgFile' = f
        /\ call' = IF PatchAt("write") THEN [call EXCEPT !.edited = Some(f)] ELSE call
    /\ UNCHANGED ret
    /\ PatchOthersUnchanged

NextPatch == PatchStart \/ PatchCreateDir \/ PatchRead \/ PatchWrite \/ ExternalWrite

SpecPatch == InitPure /\ [][NextPatch]_vars

-----------------------------------------------------------------------------
(* Properties of the resolver, checked under SpecPure.                     *)

IsResolve == call.fn = "resolve"

\* resolve was applied with no explicit selector to a config without
\* default_display: the monitor rules decide.
FallsThrough ==
    /\ IsResolve
    /\ call.display_arg = None
    /\ call.config # None
    /\ call.config[1].default_display = None

\* The positions of the first rule of monitors that matches ds (none or one).
FirstMatching(monitors, ds) ==
    {i \in 1..Len(monitors) :
        /\ match_display(monitors[i], ds) # None
        /\ \A j \in 1..(i - 1) : match_display(monitors[j], ds) = None}

RuleDecides == FallsThrough /\ FirstMatching(call.config[1].monitors, call.displays) # {}
DecidingRule ==
    call.config[1].monitors[CHOOSE i \in FirstMatching(call.config[1].monitors, call.displays) : TRUE]

\* The selector a matching rule produces.
RuleSelector(rule, ds) ==
    IF rule.display # None THEN rule.display[1] ELSE match_display(rule, ds)[1][2]

\* C1: resolve picks the selector by strict priority: the explicit selector,
\* else config.default_display, else the selector of the first matching rule,
\* else "1".
C1_SelectorPriority ==
    IsResolve =>
        ret.display_selector =
            IF call.display_arg # None THEN call.display_arg[1]
            ELSE IF call.config = None THEN S_1
            ELSE IF call.config[1].default_display # None
                 THEN call.config[1].default_display[1]
            ELSE IF RuleDecides THEN RuleSelector(DecidingRule, call.displays)
            ELSE S_1

\* An explicit selector given together with a default_display and a rule that
\* matches: the explicit selector is the result.
C1_Witness ==
    /\ IsResolve
    /\ call.display_arg = Some(S_3)
    /\ call.config # None
    /\ call.config[1].default_display = Some(S_9)
    /\ FirstMatching(call.config[1].monitors, call.displays) # {}
    /\ ret.display_selector = S_3

\* C2: when the rules decide, the first matching rule alone determines the
\* result: it is the result for the config holding only that rule.
C2_FirstRuleOnly ==
    RuleDecides =>
        /\ ret = resolve(Some([call.config[1] EXCEPT !.monitors = <<DecidingRule>>]),
                         call.displays, None)
        /\ ret.display_selector = RuleSelector(DecidingRule, call.displays)

\* Two rules that both match and differ in selector and inputs: the first wins.
C2_Witness ==
    /\ RuleDecides
    /\ Len(call.config[1].monitors) = 2
    /\ match_display(call.config[1].monitors[1], call.displays) # None
    /\ match_display(call.config[1].monitors[2], call.displays) # None
    /\ call.config[1].monitors[1].display = None
    /\ call.config[1].monitors[2].display = Some(S_X)
    /\ call.config[1].monitors[1].inputs = EmptyMap
    /\ call.config[1].monitors[2].inputs = RuleInputs
    /\ ret.display_selector # S_X
    /\ ret.inputs = call.config[1].inputs

\* What the claim says a rule's match predicate is.
C3_Matches(m, ds) ==
    IF m.index # None
    THEN \E i \in 1..Len(ds) : ds[i].index = m.index[1]
    ELSE /\ m.contains # None
         /\ \E i \in 1..Len(ds) :
                /\ ds[i].product_name # None
                /\ contains(to_ascii_lowercase(ds[i].product_name[1]),
                            to_ascii_lowercase(m.contains[1]))

\* C3: a rule matches exactly when, match.index being set, some display has
\* that index, and otherwise when some display has a product name that
\* contains match.contains case-insensitively; a display without a product
\* name never matches, whatever the needle.
C3_MatchPredicate ==
    call.fn = "match_display" =>
        ((ret # None) <=> C3_Matches(call.mon_cfg.match, call.displays))

RECURSIVE DecimalValue(_)
DecimalValue(s) ==
    IF s = <<>> THEN 0
    ELSE 10 * DecimalValue(SubSeq(s, 1, Len(s) - 1)) + (s[Len(s)] - 48)

\* s is the decimal numeral of n: digits only, no leading zero, value n.
IsDecimalOf(s, n) ==
    /\ Len(s) >= 1
    /\ \A i \in 1..Len(s) : s[i] \in 48..57
    /\ Len(s) > 1 => s[1] # 48
    /\ DecimalValue(s) = n

InferredOk(sel, d) ==
    IF d.system_uuid # None THEN sel = S_uuid_ \o d.system_uuid[1]
    ELSE IsDecimalOf(sel, d.index)

\* C4: the selector of a matching rule is the rule's display override if
\* present, otherwise "uuid:<systemUuid>" of the matched display when the
\* UUID is known, else the decimal index of the matched display.
C4_SelectorOnMatch ==
    /\ RuleDecides =>
            IF DecidingRule.display # None
            THEN ret.display_selector = DecidingRule.display[1]
            ELSE InferredOk(ret.display_selector,
                            match_display(DecidingRule, call.displays)[1][1])
    /\ call.fn = "selector_for_display" => InferredOk(ret, call.display)

\* A rule without override matched the second display, whose UUID is unknown
\* while the first display's is known: the selector is "2".
C4_Witness ==
    /\ RuleDecides
    /\ DecidingRule.display = None
    /\ DecidingRule.match.index = Some(2)
    /\ Len(call.displays) = 2
    /\ call.displays[1].system_uuid = Some(S_U)
    /\ call.displays[2].system_uuid = None
    /\ ret.display_selector = <<50>>

\* C5: the resolved inputs are config.inputs overlaid with the matched rule's
\* inputs: the rule's value for a name in both, the global value for a name
\* only in config.inputs, and the rule's names added.
C5_InputsOverlay ==
    RuleDecides =>
        /\ Keys(ret.inputs) = Keys(call.config[1].inputs) \cup Keys(DecidingRule.inputs)
        /\ Cardinality(Keys(ret.inputs)) = Len(ret.inputs)
        /\ \A k \in Keys(ret.inputs) :
                Get(ret.inputs, k) =
                    IF k \in Keys(DecidingRule.inputs) THEN Get(DecidingRule.inputs, k)
                    ELSE Get(call.config[1].inputs, k)

\* Global {dp1: 15, usb_c: 26} under a rule with {hdmi1: 18, dp1: 17}.
C5_Witness ==
    /\ RuleDecides
    /\ call.config[1].inputs = GlobalInputs
    /\ DecidingRule.inputs = RuleInputs
    /\ Entries(ret.inputs) = {<<S_dp1, 17>>, <<S_usb_c, 26>>, <<S_hdmi1, 18>>}

-----------------------------------------------------------------------------
(* Properties of the inputs table and of decode.                           *)

ActionIds ==
    {CMD_RELOAD, CMD_QUIT, CMD_TOGGLE_STARTUP, CMD_EDIT_CONFIG, CMD_OPEN_CONFIG_FOLDER}

\* C6: in every reachable state of the tray model the ids of the inputs table
\* are disjoint from the five action ids, whatever the number of configured
\* presets, so decode turns no action id into Input.  Checked under SpecMany.
C6_IdsDisjointFromActions ==
    /\ DOMAIN inputs \cap ActionIds = {}
    /\ \A id \in ActionIds : decode(id, inputs)[1].tag # "Input"

\* C7: after every load (new or Reload) every key of the ResolvedConfig's
\* inputs is the name of exactly one entry of the inputs table, and that entry
\* carries the key's value.  Said of sets: the table has at least as many
\* entries as there are keys, every entry of the resolved map is an entry of
\* the table, and no more table entries are named by a key than there are
\* keys.  Checked under SpecMany.
C7_ResolvedKeysInTable ==
    Resolved # None =>
        LET rc == Resolved[1].inputs
            keys == Keys(rc)
        IN  /\ Len(rc) <= Cardinality(DOMAIN inputs)
            /\ Entries(rc) \subseteq {inputs[id] : id \in DOMAIN inputs}
            /\ Cardinality({id \in DOMAIN inputs : inputs[id][1] \in keys}) = Cardinality(keys)

\* a sorts before b in bytewise lexicographic order: at the first position
\* where they differ a is shorter or holds the smaller code.
LexBefore(a, b) ==
    \E i \in 1..(Len(a) + 1) :
        /\ \A j \in 1..(i - 1) : j <= Len(b) /\ a[j] = b[j]
        /\ \/ i = Len(a) + 1 /\ Len(b) >= i
           \/ i <= Len(a) /\ i <= Len(b) /\ a[i] < b[i]

\* C8: build_inputs gives the presets the ids base, base+1, ... in
\* lexicographic order of their names ({dp1: 15, usb_c: 26} yields
\* {2000: (dp1, 15), 2001: (usb_c, 26)}), and the result is the same for every
\* order in which the preset map iterates.  Checked under SpecPure.
C8_BuildInputsSorted ==
    (call.fn = "build_inputs" /\ Len(call.inputs) > 0) =>
        /\ DOMAIN ret = call.base_cmd..(call.base_cmd + Len(call.inputs) - 1)
        /\ {ret[id] : id \in DOMAIN ret} = Entries(call.inputs)
        /\ \A id \in DOMAIN ret :
                (id + 1) \in DOMAIN ret => LexBefore(ret[id][1], ret[id + 1][1])
        /\ \A it \in IterOrders(call.inputs) : build_inputs(it, call.base_cmd) = ret
        /\ Entries(call.inputs) = {<<S_dp1, 15>>, <<S_usb_c, 26>>} =>
                ret = (2000 :> <<S_dp1, 15>> @@ 2001 :> <<S_usb_c, 26>>)

\* The table default_inputs(CMD_BASE_INPUT) builds.
DefaultTable == (2000 :> <<S_dp1, 15>> @@ 2001 :> <<S_usb_c, 26>>)

\* C36: in every reachable state of the tray model the inputs table is not
\* empty and its ids are exactly 2000 .. 2000+n-1 for its n entries; when the
\* config did not load or the resolved preset map is empty, the table is
\* {2000: (dp1, 15), 2001: (usb_c, 26)}.  Checked under SpecMany.
C36_TableContiguous ==
    /\ DOMAIN inputs # {}
    /\ (Resolved = None \/ Resolved[1].inputs = EmptyMap) => inputs = DefaultTable
    /\ DOMAIN inputs = CMD_BASE_INPUT..(CMD_BASE_INPUT + Cardinality(DOMAIN inputs) - 1)

ActionOf ==
    (CMD_RELOAD :> "Reload" @@ CMD_QUIT :> "Quit" @@ CMD_TOGGLE_STARTUP :> "ToggleStartup"
        @@ CMD_EDIT_CONFIG :> "EditConfig" @@ CMD_OPEN_CONFIG_FOLDER :> "OpenConfigFolder")

\* C9: decode(cmd_id, table) is Input(v) when cmd_id is a key of the table
\* with value v, the table being consulted first; otherwise the action command
\* of cmd_id when it is one of the five fixed ids; otherwise none.  It answers
\* for every u16 id.  Checked under SpecPure.
C9_DecodeOrder ==
    call.fn = "decode" =>
        /\ call.cmd_id \in DOMAIN call.table =>
                ret = Some(CmdInput(call.table[call.cmd_id][2]))
        /\ (call.cmd_id \notin DOMAIN call.table /\ call.cmd_id \in DOMAIN ActionOf) =>
                ret = Some(Cmd(ActionOf[call.cmd_id]))
        /\ (call.cmd_id \notin DOMAIN call.table /\ call.cmd_id \notin DOMAIN ActionOf) =>
                ret = None

\* An id that is both a key of the table and a fixed action id decodes to Input.
C9_Witness ==
    /\ call.fn = "decode"
    /\ call.cmd_id = CMD_RELOAD
    /\ call.cmd_id \in DOMAIN call.table
    /\ ret = Some(CmdInput(15))

-----------------------------------------------------------------------------
(* Properties of TrayModel::handle, checked under Spec.                    *)

\* C10: handle(Input(v)) calls Backend.set_input once with the model's display
\* selector and v; a successful call leaves last_error none, a failed one
\* leaves it the error text; either way the update has refresh_tooltip set and
\* refresh_menu, quit and open_path unset.
C10_HandleInput ==
    lastCmd.tag = "Input" =>
        /\ Len(calls) = 1
        /\ calls[1].op = "Backend.set_input"
        /\ calls[1].sel = Some(display_selector)
        /\ calls[1].value = lastCmd.value
        /\ calls[1].ok => last_error = None
        /\ ~calls[1].ok => last_error = Some("set input")
        /\ update = ModelUpdate(FALSE, TRUE, FALSE, None)

\* A failed set_input on the selector inferred from a monitor rule.
C10_Witness ==
    /\ lastCmd = CmdInput(17)
    /\ display_selector = S_uuid_ \o S_U
    /\ ~calls[1].ok
    /\ last_error = Some("set input")


\* C11: when Backend.set_input fails during handle(Input(v)), the display
\* selector, the inputs table, start_enabled and the stored startup preference
\* (the model's and the file's) keep their values, as does the OS autostart
\* state; last_error becomes the error.
C11_FailedInputKeepsState ==
    [][(lastCmd'.tag = "Input" /\ ~Succeeded(calls'))
          => /\ UNCHANGED <<display_selector, inputs, start_enabled, start_pref,
                            cfgFile, osEnabled>>
             /\ last_error' = Some("set input")]_vars

\* A failed set_input in a model that has autostart enabled by a configured
\* preference and a selector other than the default.
C11_Witness ==
    /\ lastCmd.tag = "Input"
    /\ ~Succeeded(calls)
    /\ start_enabled
    /\ start_pref = Some(TRUE)
    /\ display_selector # S_1
    /\ Cardinality(DOMAIN inputs) >= 2


\* C12: in the state TrayModel::new leaves, a configured start_with_windows
\* value has been written to the OS through StartupManager.set_enabled, and
\* when none is configured start_enabled equals StartupManager.is_enabled().
C12_NewAppliesStartupPref ==
    lastCmd.tag = "New" =>
        /\ start_pref # None =>
              \E i \in 1..Len(calls) :
                  /\ calls[i].op = "StartupManager.set_enabled"
                  /\ calls[i].value = start_pref[1]
        /\ start_pref = None => start_enabled = osEnabled


\* C13: after two consecutive successful handle(ToggleStartup),
\* StartupManager.is_enabled() has the value it had before the first of them,
\* and the config file's start_with_windows is the final enabled state.
C13_ToggleTwiceRestores ==
    Len(toggles) = 2 =>
        /\ osEnabled = toggles[1]
        /\ cfgFile.start_with_windows = Some(osEnabled)


\* C14: when StartupManager.set_enabled fails during handle(ToggleStartup),
\* start_enabled keeps its value, the config file is not written (no write is
\* attempted), no other field changes, and the failure is recorded in
\* last_error with refresh_tooltip set in the update.
C14_FailedToggleRejected ==
    [][(lastCmd'.tag = "ToggleStartup" /\ ~calls'[1].ok)
          => /\ UNCHANGED <<start_enabled, cfgFile, inputs, display_selector,
                            start_pref, osEnabled>>
             /\ Len(calls') = 1
             /\ calls'[1].op = "StartupManager.set_enabled"
             /\ last_error' = Some("update startup setting")
             /\ update'.refresh_tooltip]_vars

\* A rejected attempt to switch autostart off.
C14_Witness ==
    /\ lastCmd.tag = "ToggleStartup"
    /\ calls = <<CallRec("StartupManager.set_enabled", None, FALSE, FALSE)>>
    /\ start_enabled
    /\ osEnabled
    /\ cfgFile.start_with_windows = Some(TRUE)
    /\ last_error = Some("update startup setting")

\* C15: a successful handle(ToggleStartup) sets start_enabled to its negation,
\* calls StartupManager.set_enabled with the new value and then writes it to
\* the config file as start_with_windows (creating the file when there is
\* none), clears last_error and returns refresh_menu and refresh_tooltip set.
C15_ToggleSucceeds ==
    [][(lastCmd'.tag = "ToggleStartup" /\ Succeeded(calls'))
          => /\ start_enabled' = ~start_enabled
             /\ calls' = <<CallRec("StartupManager.set_enabled", None, ~start_enabled, TRUE),
                           CallRec("config.patch_start_with_windows", None, ~start_enabled, TRUE)>>
             /\ osEnabled' = ~start_enabled
             /\ cfgFile'.kind # "absent"
             /\ cfgFile'.start_with_windows = Some(~start_enabled)
             /\ cfgFile'.body = cfgFile.body
             /\ last_error' = None
             /\ update'.refresh_menu
             /\ update'.refresh_tooltip]_vars

\* Autostart switched on by a toggle that created the config file: the load
\* found none, and the file now holds nothing but the flag.
C15_Witness ==
    /\ lastCmd.tag = "ToggleStartup"
    /\ Succeeded(calls)
    /\ Len(toggles) = 1
    /\ loaded.file.kind = "absent"
    /\ cfgFile = File("object", Some(TRUE), "empty")
    /\ start_enabled


\* The commands handle is given, and the updates it may return.
HandledTags == {"Input", "Reload", "ToggleStartup", "EditConfig", "OpenConfigFolder", "Quit"}
ModelUpdates ==
    [refresh_menu : BOOLEAN, refresh_tooltip : BOOLEAN, quit : BOOLEAN,
     open_path : {None, Some(TrayConfigPath), parent(TrayConfigPath)}]

C17_ConstructionNeverFails ==
    lastCmd.tag = "New" =>
        /\ winState # None /\ winState[1].ok
        /\ display_selector # S_empty
        /\ DOMAIN inputs # {}
        /\ ~Succeeded(calls) => last_error # None


\* C18: handle(Reload) loads the config again, lists the displays and resolves
\* when it loaded, and always ends with the startup sync (set_enabled with a
\* configured preference, is_enabled without); the model holds what that load
\* of the current file yields, and the update has refresh_menu and
\* refresh_tooltip set whatever failed.
C18_ReloadRefreshes ==
    lastCmd.tag = "Reload" =>
        /\ update.refresh_menu
        /\ update.refresh_tooltip
        /\ calls[1].op = "config.load_optional"
        /\ calls[1].ok => Len(calls) = 3 /\ calls[2].op = "Backend.list_displays"
        /\ ~calls[1].ok => Len(calls) = 2
        /\ calls[Len(calls)].op =
              IF start_pref # None THEN "StartupManager.set_enabled"
              ELSE "StartupManager.is_enabled"
        /\ loaded.file = cfgFile
        /\ \E r \in load_display_and_inputs(cfgFile, loaded.listed) :
              /\ inputs = r.inputs
              /\ display_selector = r.display_selector
              /\ start_pref = r.start_pref

\* A reload of a config that does not parse: the defaults are installed, the
\* OS state is read, and the menu is still refreshed.
C18_Witness ==
    /\ lastCmd.tag = "Reload"
    /\ ~calls[1].ok
    /\ calls[2] = CallRec("StartupManager.is_enabled", None, FALSE, TRUE)
    /\ last_error = Some("parsing config")
    /\ display_selector = S_1
    /\ start_enabled
    /\ update = ModelUpdate(TRUE, TRUE, FALSE, None)


\* C19: a handle(Reload) that follows a handle(Reload) with the environment
\* unchanged (the same file and displays, the same outcome of every call)
\* leaves the inputs table, the display selector and start_enabled as the
\* first left them, whatever order the preset map iterates in.
C19_ReloadIdempotent ==
    [][(lastCmd.tag = "Reload" /\ lastCmd'.tag = "Reload" /\ calls' = calls)
          => UNCHANGED <<inputs, display_selector, start_enabled>>]_vars

\* A state a reload leaves, and leaves again when repeated: three presets
\* layered from a monitor rule, the selector inferred from the matched
\* display, autostart read from the OS.
C19_Witness ==
    /\ lastCmd.tag = "Reload"
    /\ Succeeded(calls)
    /\ Cardinality(DOMAIN inputs) = 3
    /\ display_selector = S_uuid_ \o S_U
    /\ start_pref = None
    /\ start_enabled


\* The last operation read the OS autostart state and the read failed; the
\* calls of its load all succeeded.
ReadFailed ==
    /\ calls # <<>>
    /\ calls[Len(calls)] = CallRec("StartupManager.is_enabled", None, FALSE, FALSE)
LoadSucceeded == Succeeded(SubSeq(calls, 1, Len(calls) - 1))

\* C20: when no startup preference is configured and StartupManager.is_enabled
\* fails during a load or reload, start_enabled is false and last_error holds
\* the read error.
C20_ReadErrorRecorded ==
    (start_pref = None /\ ReadFailed) =>
        /\ ~start_enabled
        /\ last_error = Some("read startup setting")

\* C20, amended: when no startup preference is configured and
\* StartupManager.is_enabled fails during a reload, start_enabled is false and
\* last_error is set: to the read error when the load recorded no error, and
\* to the load error, which takes precedence, when it did.
C20_ReadErrorUnlessLoadError ==
    ReadFailed =>
        /\ lastCmd.tag = "Reload"
        /\ start_pref = None
        /\ ~start_enabled
        /\ LoadSucceeded => last_error = Some("read startup setting")
        /\ ~LoadSucceeded =>
              last_error \in {Some("reading config"), Some("parsing config"),
                              Some("list displays failed"), Some("no displays found")}

\* The OS has autostart enabled, the reload could not read that, and the model
\* shows it disabled with the read error.
C20_Witness ==
    /\ ReadFailed
    /\ LoadSucceeded
    /\ osEnabled
    /\ ~start_enabled
    /\ last_error = Some("read startup setting")


\* C21: handle(Quit) returns an update with quit set and does nothing else: it
\* makes no backend, StartupManager or config call, and no model field
\* (last_error included), nor the file or the OS state, changes.
C21_QuitHasNoEffect ==
    [][lastCmd'.tag = "Quit"
          => /\ update'.quit
             /\ calls' = <<>>
             /\ UNCHANGED <<inputs, display_selector, last_error, start_enabled,
                            start_pref, cfgFile, displays, osEnabled>>]_vars

\* Quit handled by a model that holds an error and has autostart enabled.
C21_Witness ==
    /\ lastCmd.tag = "Quit"
    /\ update = ModelUpdate(FALSE, FALSE, TRUE, None)
    /\ last_error # None
    /\ start_enabled


\* C28: when an explicit selector or config.default_display supplies the
\* selector, no monitor rule takes part: the selector is the supplied one and
\* the resolved inputs are exactly config.inputs, whether or not a rule
\* matches a connected display.
C28_RulesSkippedWhenSelectorGiven ==
    (/\ IsResolve
     /\ call.config # None
     /\ (call.display_arg # None \/ call.config[1].default_display # None)) =>
        /\ ret.display_selector =
              IF call.display_arg # None THEN call.display_arg[1]
              ELSE call.config[1].default_display[1]
        /\ Len(ret.inputs) = Len(call.config[1].inputs)
        /\ Entries(ret.inputs) = Entries(call.config[1].inputs)

\* default_display is set and the first rule matches a connected display and
\* carries presets of its own: the resolved inputs are the global ones.
C28_Witness ==
    /\ IsResolve
    /\ call.display_arg = None
    /\ call.config # None
    /\ call.config[1].default_display = Some(S_9)
    /\ call.config[1].inputs = GlobalInputs
    /\ Len(call.config[1].monitors) >= 1
    /\ call.config[1].monitors[1].inputs = RuleInputs
    /\ match_display(call.config[1].monitors[1], call.displays) # None
    /\ ret = [display_selector |-> S_9, inputs |-> GlobalInputs]

-----------------------------------------------------------------------------
(* Properties of the config path, checked under SpecPure.                  *)

\* The override is available: MONITORCTL_CONFIG is set to a value that is not
\* blank.  The per-user config directory: APPDATA, else HOME/.config.
OverrideGiven(env) ==
    /\ env.MONITORCTL_CONFIG # None
    /\ env.MONITORCTL_CONFIG[1].unicode
    /\ env.MONITORCTL_CONFIG[1].path \notin {<<>>, <<"">>, <<" ">>}
UserConfigDir(env) ==
    IF env.APPDATA # None THEN env.APPDATA
    ELSE IF env.HOME # None THEN Some(env.HOME[1] \o <<".config">>)
    ELSE None

\* C24: the config path is the override when MONITORCTL_CONFIG is given; it
\* is ./monitorctl.json only when no override is given and that file exists,
\* and then always; it is monitorctl/config.json under the per-user config
\* directory only when neither of the two is available, and then always
\* (no path when there is no such directory either).
C24_ConfigPathPriority ==
    call.fn = "resolve_config_path" =>
        LET env == call.env
            user == UserConfigDir(env)
        IN  /\ OverrideGiven(env) => ret = Some(env.MONITORCTL_CONFIG[1].path)
            /\ (~OverrideGiven(env) /\ env.local_exists) => ret = Some(<<"monitorctl.json">>)
            /\ (~OverrideGiven(env) /\ ~env.local_exists) =>
                  ret = IF user = None THEN None
                        ELSE Some(user[1] \o <<"monitorctl", "config.json">>)

\* The override wins although ./monitorctl.json exists and both per-user
\* directories are known.
C24_Witness ==
    /\ call.fn = "resolve_config_path"
    /\ call.env.local_exists
    /\ call.env.APPDATA # None
    /\ call.env.HOME # None
    /\ ret = Some(<<"/", "etc", "m.json">>)


-----------------------------------------------------------------------------
(* Properties of TrayModel::handle, checked under Spec (continued).        *)

\* C22: a successful handle(EditConfig) returns the config path as open_path;
\* it writes the default config only when there is no file, and leaves an
\* existing file, whatever it holds, as it is, so that a second EditConfig
\* changes nothing.  handle(OpenConfigFolder) never changes the file and,
\* when it succeeds, returns the parent directory of the config path.
C22_EditConfigCreatesOnce ==
    [][/\ lastCmd'.tag = "EditConfig" =>
             /\ cfgFile.kind # "absent" => cfgFile' = cfgFile
             /\ Succeeded(calls') =>
                   /\ update'.open_path = Some(TrayConfigPath)
                   /\ cfgFile'.kind # "absent"
                   /\ cfgFile.kind = "absent" => cfgFile' = File("object", Some(FALSE), "empty")
             /\ ~Succeeded(calls') => cfgFile' = cfgFile
             /\ (lastCmd.tag = "EditConfig" /\ Succeeded(calls)) => cfgFile' = cfgFile
       /\ lastCmd'.tag = "OpenConfigFolder" =>
             /\ cfgFile' = cfgFile
             /\ Succeeded(calls') =>
                   update'.open_path = Some(<<"/", "home", ".config", "monitorctl">>)]_vars

\* EditConfig on an existing config with presets, a rule and autostart on:
\* the path is returned and the file is as it was.
C22_Witness ==
    /\ lastCmd.tag = "EditConfig"
    /\ Succeeded(calls)
    /\ update.open_path = Some(<<"/", "home", ".config", "monitorctl", "config.json">>)
    /\ cfgFile = File("object", Some(TRUE), "rule")


-----------------------------------------------------------------------------
(* Properties of parse_input_value, checked under SpecPure.                *)

\* s is a numeral: digits after an optional "+".  Its digits.
NumeralDigits(s) == IF s # <<>> /\ s[1] = 43 THEN Tail(s) ELSE s
IsNumeral(s) ==
    /\ NumeralDigits(s) # <<>>
    /\ \A i \in 1..Len(NumeralDigits(s)) : NumeralDigits(s)[i] \in 48..57
IsU16Numeral(s) == IsNumeral(s) /\ DecimalValue(NumeralDigits(s)) \in 0..(U16 - 1)

\* C23: parse_input_value(s, resolved) returns the number when s is a numeral
\* of a 16-bit unsigned value, whether or not s is also a preset name;
\* otherwise (a numeral out of range included) the value of the preset named
\* s when there is one; otherwise it fails, naming every known preset once.
C23_ParseInputValue ==
    call.fn = "parse_input_value" =>
        LET s == call.value
            ins == call.resolved.inputs
        IN  /\ IsU16Numeral(s) =>
                  ret.ok /\ ret.val = DecimalValue(NumeralDigits(s))
            /\ (~IsU16Numeral(s) /\ HasKey(ins, s)) =>
                  ret.ok /\ ret.val = Get(ins, s)
            /\ (~IsU16Numeral(s) /\ ~HasKey(ins, s)) =>
                  /\ ~ret.ok
                  /\ Len(ret.known) = Len(ins)
                  /\ {ret.known[i] : i \in 1..Len(ret.known)} = Keys(ins)

\* "26" is the name of a preset with value 15, and parses to 26.
C23_Witness ==
    /\ call.fn = "parse_input_value"
    /\ call.value = S_26
    /\ HasKey(call.resolved.inputs, S_26)
    /\ Get(call.resolved.inputs, S_26) = 15
    /\ ret = ParseOk(26)


-----------------------------------------------------------------------------
(* Properties of the Windows backend, checked under SpecPure.              *)

\* The positions (1-based) of the monitors a "name:" selector with this needle
\* denotes.
C25_Denoted(needle, mons) ==
    {i \in 1..Len(mons) :
        \E k \in 0..(Len(mons[i]) - Len(trim(needle))) :
            to_ascii_lowercase(SubSeq(mons[i], k + 1, k + Len(trim(needle))))
                = to_ascii_lowercase(trim(needle))}

\* C25: on the Windows backend set-input and get-input fail, issuing no VCP
\* request, when the selector is the index 0, an index above the number of
\* monitors, or a "name:" selector that denotes no monitor or more than one;
\* a request that is issued goes to the one monitor the selector denotes.
C25_AmbiguousSelectorFails ==
    (call.fn = "windows_input" /\ call.mons # None) =>
        LET sel == call.display_selector
            mons == call.mons[1]
        IN  /\ \A n \in 0..(MaxDisplays + 2) :
                  (sel = to_string(n) /\ (n = 0 \/ n > Len(mons))) =>
                      ~ret.ok /\ ret.vcp = <<>>
            /\ \A k \in 0..3 :
                  (/\ Len(sel) = Len(S_name_) + k
                   /\ SubSeq(sel, 1, Len(S_name_)) = S_name_
                   /\ Cardinality(C25_Denoted(SubSeq(sel, Len(S_name_) + 1, Len(sel)), mons)) # 1)
                      => ~ret.ok /\ ret.vcp = <<>>
            /\ ret.vcp # <<>> =>
                  /\ Len(ret.vcp) = 1
                  /\ ret.vcp[1].monitor + 1 \in 1..Len(mons)
                  /\ \/ sel \in {to_string(ret.vcp[1].monitor + 1),
                                  <<43>> \o to_string(ret.vcp[1].monitor + 1)}
                     \/ C25_Denoted(SubSeq(sel, Len(S_name_) + 1, Len(sel)), mons)
                            = {ret.vcp[1].monitor + 1}

\* set-input with "name:ab" while two monitors are described "Ab" and "aB":
\* refused, nothing written.
C25_Witness ==
    /\ call.fn = "windows_input"
    /\ call.op = "set_input"
    /\ call.display_selector = S_name_ \o <<97, 98>>
    /\ call.mons = Some(<<S_Ab, S_aB>>)
    /\ ~ret.ok
    /\ ret.vcp = <<>>


-----------------------------------------------------------------------------
(* Properties of the CLI, checked under SpecCli.                           *)

CliSteps ==
    <<"Backend.list_displays", "config.load_optional", "config.resolve",
      "config.parse_input_value", "Backend.set_input">>
CliHas(op) == \E i \in 1..Len(calls) : calls[i].op = op
CliValueKnown ==
    \/ call.value \in {S_26}
    \/ /\ call.value = S_dp1
       /\ call.file.kind = "object"
    \/ /\ call.value = S_hdmi1
       /\ call.file = File("object", None, "rule")
       /\ call.display = None
       /\ Len(call.displays) = 2

\* C26: the set-input command takes its steps in the order list displays,
\* load config, resolve, parse value, Backend.set_input, print; a step that
\* fails is the last one and the exit code is then not 0; Backend.set_input
\* is called only with a value that is a number or a known preset, and the
\* value is printed only after Backend.set_input succeeded.
C26_CliSetInputOrder ==
    call.fn = "cli_set_input" =>
        /\ Len(calls) <= Len(CliSteps)
        /\ \A i \in 1..Len(calls) : calls[i].op = CliSteps[i]
        /\ \A i \in 1..Len(calls) : ~calls[i].ok => (i = Len(calls) /\ call.pc = "done")
        /\ ~Succeeded(calls) => ret.exit = Some(1) /\ ret.stdout = <<>>
        /\ CliHas("Backend.set_input") => CliValueKnown
        /\ ret.stdout # <<>> =>
              /\ Len(calls) = Len(CliSteps)
              /\ Succeeded(calls)
              /\ ret.stdout = <<to_string(calls[Len(calls)].value)>>
        /\ ret.exit = Some(0) <=> ret.stdout # <<>>
        /\ call.pc = "done" => ret.exit # None

\* The value names no preset and is no number: the command has stopped at the
\* parse step with exit code 1, Backend.set_input not called, nothing printed.
C26_Witness ==
    /\ call.fn = "cli_set_input"
    /\ call.value = S_hdmi1
    /\ call.pc = "done"
    /\ Len(calls) = 4
    /\ ~calls[4].ok
    /\ ret = CliOut(<<>>, Some(1))


\* How many of the last operation's calls were calls of op.
CallCount(op) == Cardinality({i \in 1..Len(calls) : calls[i].op = op})

\* C27: each handle(Input(v)) issues exactly one Backend.set_input call, and
\* each load (new or Reload) exactly one Backend.list_displays call, whether
\* the call succeeds or fails.
C27_ExactlyOneCall ==
    /\ lastCmd.tag = "Input" => CallCount("Backend.set_input") = 1
    /\ lastCmd.tag \in {"New", "Reload"} => CallCount("Backend.list_displays") = 1

\* C27, amended: each handle(Input(v)) issues exactly one Backend.set_input
\* call; each load (new or Reload) issues one Backend.list_displays call when
\* the config loaded (or there is no config file) and none when the config
\* failed to load; no call is repeated after a failure.
C27_NoRetry ==
    /\ lastCmd.tag = "Input" => CallCount("Backend.set_input") = 1 /\ Len(calls) = 1
    /\ lastCmd.tag \in {"New", "Reload"} =>
          /\ CallCount("config.load_optional") = 1
          /\ CallCount("Backend.list_displays") = IF calls[1].ok THEN 1 ELSE 0
    /\ \A i, j \in 1..Len(calls) : calls[i].op = calls[j].op => i = j

\* A reload whose list_displays failed: it was called once.
C27_Witness ==
    /\ lastCmd.tag = "Reload"
    /\ calls[1].ok
    /\ calls[2] = CallRec("Backend.list_displays", None, FALSE, FALSE)
    /\ CallCount("Backend.list_displays") = 1
    /\ last_error = Some("list displays failed")


\* The last operation was a load (new or Reload) whose write of the
\* configured startup preference to the OS failed.
WriteFailed ==
    /\ lastCmd.tag \in {"New", "Reload"}
    /\ calls # <<>>
    /\ calls[Len(calls)].op = "StartupManager.set_enabled"
    /\ ~calls[Len(calls)].ok

\* C30: when writing a configured startup preference to the OS fails during a
\* load, the failure is not recorded and start_enabled is the OS state.
C30_FailedWriteIgnored ==
    WriteFailed =>
        /\ last_error # Some("update startup setting")
        /\ start_enabled = osEnabled

\* C30, amended: when a load writes a configured startup preference to the OS
\* and the write fails, start_enabled is the configured preference,
\* is_enabled is not called, and last_error is set: to the write error when
\* the load recorded no error, and to the error of listing the displays,
\* which takes precedence, when that failed.
C30_FailedWriteKeepsPref ==
    WriteFailed =>
        /\ start_pref # None
        /\ start_enabled = start_pref[1]
        /\ calls[Len(calls)].value = start_pref[1]
        /\ \A i \in 1..Len(calls) : calls[i].op # "StartupManager.is_enabled"
        /\ LoadSucceeded => last_error = Some("update startup setting")
        /\ ~LoadSucceeded =>
              last_error \in {Some("list displays failed"), Some("no displays found")}

\* The config asks for autostart, the OS has it disabled and refused the
\* write: the model shows it enabled, with the write error.
C30_Witness ==
    /\ WriteFailed
    /\ LoadSucceeded
    /\ start_pref = Some(TRUE)
    /\ ~osEnabled
    /\ start_enabled
    /\ last_error = Some("update startup setting")

\* The positions of the StartupManager calls in a call log.
StartupCalls(log) ==
    {i \in 1..Len(log) :
        log[i].op \in {"StartupManager.set_enabled", "StartupManager.is_enabled"}}

\* C31: a handle(Reload) makes exactly one StartupManager call: set_enabled
\* with the preference when the loaded config carries start_with_windows,
\* is_enabled when it carries none or did not load; in the latter case the OS
\* autostart state is left as it was.
C31_ReloadOneStartupCall ==
    [][lastCmd'.tag = "Reload" =>
          /\ Cardinality(StartupCalls(calls')) = 1
          /\ \A i \in StartupCalls(calls') :
                IF start_pref' # None
                THEN /\ calls'[i].op = "StartupManager.set_enabled"
                     /\ calls'[i].value = start_pref'[1]
                ELSE /\ calls'[i].op = "StartupManager.is_enabled"
                     /\ osEnabled' = osEnabled]_vars

\* A reload of a config without the key, with autostart enabled in the OS: one
\* is_enabled call, the OS state still enabled.
C31_Witness ==
    /\ lastCmd.tag = "Reload"
    /\ loaded.file = File("object", None, "rule")
    /\ start_pref = None
    /\ Cardinality(StartupCalls(calls)) = 1
    /\ calls[Len(calls)] = CallRec("StartupManager.is_enabled", None, FALSE, TRUE)
    /\ osEnabled
    /\ start_enabled

\* The log of a ToggleStartup whose set_enabled succeeded and whose config
\* write failed.
HalfToggled(log) ==
    /\ Len(log) = 2
    /\ log[1].op = "StartupManager.set_enabled" /\ log[1].ok
    /\ log[2].op = "config.patch_start_with_windows" /\ ~log[2].ok

\* C32: a ToggleStartup whose set_enabled(next) succeeds and whose config
\* write fails leaves the OS autostart state at next, start_enabled and the
\* config file as they were, so the flag differs from the OS state; and the
\* difference stays through every command other than Reload and
\* ToggleStartup.
C32_ToggleNotAtomic ==
    [][/\ (lastCmd'.tag = "ToggleStartup" /\ HalfToggled(calls')) =>
             /\ calls'[1].value = ~start_enabled
             /\ osEnabled' = ~start_enabled
             /\ start_enabled' = start_enabled
             /\ cfgFile' = cfgFile
             /\ start_enabled' # osEnabled'
             /\ last_error' # None
       /\ (/\ start_enabled # osEnabled
           /\ lastCmd'.tag \in {"Input", "EditConfig", "OpenConfigFolder", "Quit"}) =>
             start_enabled' # osEnabled']_vars

\* The config says autostart is off, the toggle turned it on in the OS and
\* could not write the config: the flag still shows it off.
C32_Witness ==
    /\ lastCmd.tag = "ToggleStartup"
    /\ HalfToggled(calls)
    /\ cfgFile = File("object", Some(FALSE), "rule")
    /\ osEnabled
    /\ ~start_enabled
    /\ last_error = Some("update config")

\* C35: display_selector, the inputs table and start_pref change only in
\* handle(Reload); start_enabled changes only in Reload and in a successful
\* ToggleStartup, which leaves start_pref as it was; Quit and a successful
\* EditConfig or OpenConfigFolder change no model field, last_error included.
C35_HandleFrame ==
    [][/\ lastCmd'.tag # "Reload" => UNCHANGED <<display_selector, inputs, start_pref>>
       /\ start_enabled' # start_enabled =>
             \/ lastCmd'.tag = "Reload"
             \/ lastCmd'.tag = "ToggleStartup" /\ Succeeded(calls') /\ start_pref' = start_pref
       /\ (\/ lastCmd'.tag = "Quit"
           \/ lastCmd'.tag \in {"EditConfig", "OpenConfigFolder"} /\ Succeeded(calls')) =>
             UNCHANGED <<inputs, display_selector, last_error, start_enabled, start_pref>>]_vars

\* A successful EditConfig in a model that holds an error, a preference and
\* a rule-inferred selector.
C35_Witness ==
    /\ lastCmd.tag = "EditConfig"
    /\ Succeeded(calls)
    /\ update.open_path # None
    /\ last_error # None
    /\ start_pref = Some(TRUE)
    /\ display_selector # S_1

\* C37: a handle(Reload) that finds the config file unreadable or malformed
\* resets display_selector to "1", the inputs table to the defaults and
\* start_pref to none, whatever they were; it does not call list_displays, it
\* reads the OS autostart state and does not write it, and last_error holds
\* the config error.
C37_ReloadOfBrokenConfigResets ==
    [][(/\ lastCmd'.tag = "Reload"
        /\ cfgFile.kind \in {"unreadable", "notjson", "badflag", "illtyped"}) =>
          /\ display_selector' = S_1
          /\ inputs' = DefaultTable
          /\ start_pref' = None
          /\ Len(calls') = 2
          /\ calls'[1] = CallRec("config.load_optional", None, FALSE, FALSE)
          /\ calls'[2].op = "StartupManager.is_enabled"
          /\ osEnabled' = osEnabled
          /\ start_enabled' = (calls'[2].ok /\ osEnabled)
          /\ last_error' = Some(IF cfgFile.kind = "unreadable" THEN "reading config"
                                ELSE "parsing config")]_vars

\* A reload of an unreadable file while two displays are connected and
\* autostart is on: the defaults, the selector "1", the flag read from the OS.
C37_Witness ==
    /\ lastCmd.tag = "Reload"
    /\ cfgFile.kind = "unreadable"
    /\ Len(displays) = 2
    /\ calls = <<CallRec("config.load_optional", None, FALSE, FALSE),
                 CallRec("StartupManager.is_enabled", None, FALSE, TRUE)>>
    /\ display_selector = S_1
    /\ inputs = DefaultTable
    /\ start_pref = None
    /\ osEnabled
    /\ start_enabled
    /\ last_error = Some("reading config")

-----------------------------------------------------------------------------
(* Properties of the config patch on the JSON document, checked under      *)
(* SpecPure.                                                               *)

IsPatchJson == call.fn = "patch_start_with_windows" /\ "doc" \in DOMAIN call

\* C38: patch_start_with_windows(b) on an object keeps every other top-level
\* key with its value and sets start_with_windows to b; on an absent file it
\* writes an object with that key alone; on a file that is not valid JSON or
\* whose root is no object it returns an error and leaves the file as it is
\* (as it does when the directory or the file cannot be written).
C38_PatchKeepsOtherKeys ==
    IsPatchJson =>
        LET doc == call.doc
            b == JsonBool(call.enabled)
        IN  /\ ret.ok <=> (call.fsOk /\ doc.kind \in {"absent", "object"})
            /\ ~ret.ok => ret.file = doc
            /\ (ret.ok /\ doc.kind = "absent") =>
                  ret.file = JsonFile("object", [k \in {"start_with_windows"} |-> b])
            /\ (ret.ok /\ doc.kind = "object") =>
                  /\ ret.file.kind = "object"
                  /\ DOMAIN ret.file.members = DOMAIN doc.members \cup {"start_with_windows"}
                  /\ ret.file.members["start_with_windows"] = b
                  /\ \A k \in DOMAIN doc.members \ {"start_with_windows"} :
                        ret.file.members[k] = doc.members[k]

\* A document with presets, a key Config does not declare and the flag off is
\* patched to on: the other two keys are as they were.
C38_Witness ==
    /\ IsPatchJson
    /\ call.enabled
    /\ call.doc.kind = "object"
    /\ DOMAIN call.doc.members = {"start_with_windows", "inputs", "note"}
    /\ call.doc.members["start_with_windows"] = "false"
    /\ ret.ok
    /\ ret.file.members["start_with_windows"] = "true"
    /\ ret.file.members["note"] = call.doc.members["note"]
    /\ ret.file.members["inputs"] = "{\"dp1\": 15}"

-----------------------------------------------------------------------------
(* Properties of the config patch, checked under SpecPatch.                *)

\* C29: when another writer changes the config file between the read and the
\* write of patch_start_with_windows and the patch succeeds, the file holds
\* the document the patch read with start_with_windows set: the other
\* writer's version is gone.
C29_LastWriterWins ==
    (PatchAt("done") /\ ret.ok /\ call.edited # None) =>
        /\ cfgFile = insert_start_with_windows(call.root[1], call.enabled)
        /\ cfgFile.body = call.root[1].body

\* The patch read a config with a rule, another writer replaced it by one
\* with a default display, and the file holds the rule again.
C29_Witness ==
    /\ PatchAt("done")
    /\ ret.ok
    /\ call.root = Some(File("object", None, "rule"))
    /\ call.edited = Some(File("object", Some(FALSE), "default"))
    /\ call.enabled
    /\ cfgFile = File("object", Some(TRUE), "rule")


-----------------------------------------------------------------------------
(* Properties of EditConfig followed by Reload, checked under SpecEdit.    *)

Template == File("object", Some(FALSE), "empty")

\* C33: started with no config file, a successful handle(EditConfig) leaves
\* the template on disk, and a handle(Reload) that follows it takes the
\* template's start_with_windows = false as the preference: it calls
\* set_enabled(false), shows autostart off, and the OS autostart state is off
\* when that call succeeds (unchanged when it fails).
C33_EditThenReloadDisables ==
    [][(lastCmd.tag = "EditConfig" /\ Succeeded(calls) /\ lastCmd'.tag = "Reload") =>
          /\ cfgFile = Template
          /\ start_pref' = Some(FALSE)
          /\ ~start_enabled'
          /\ calls'[Len(calls')].op = "StartupManager.set_enabled"
          /\ calls'[Len(calls')].value = FALSE
          /\ calls'[Len(calls')].ok => ~osEnabled'
          /\ ~calls'[Len(calls')].ok => osEnabled' = osEnabled]_vars

\* Autostart was on in the OS and is off after the Reload that read the
\* template.
C33_Witness ==
    /\ lastCmd.tag = "Reload"
    /\ loaded.file = Template
    /\ cfgFile = Template
    /\ calls[Len(calls)] = CallRec("StartupManager.set_enabled", None, FALSE, TRUE)
    /\ ~osEnabled
    /\ ~start_enabled
    /\ last_error = None


-----------------------------------------------------------------------------
(* Properties of ToggleStartup followed by Reload, checked under           *)
(* SpecToggle.                                                             *)

Toggled == call.fn = "toggle_then_reload"

\* C34: after a successful handle(ToggleStartup) that set start_enabled to b,
\* a handle(Reload) that follows it leaves start_enabled equal to b.
C34_ReloadKeepsToggle ==
    (Toggled /\ call.reloaded) => start_enabled = call.b

\* C34, amended: after a successful handle(ToggleStartup) that set
\* start_enabled to b, the file's start_with_windows and the OS autostart state
\* both equal b, and still do after a handle(Reload) that follows it; that
\* Reload leaves start_enabled equal to b when the config loads (whether or
\* not set_enabled(b) succeeds) or is_enabled succeeds, and sets it to false
\* when the config does not load and is_enabled fails.
C34_ReloadKeepsToggleUnlessUnread ==
    Toggled =>
        /\ cfgFile.start_with_windows = Some(call.b)
        /\ osEnabled = call.b
        /\ ~call.reloaded => start_enabled = call.b
        /\ call.reloaded =>
              /\ start_pref # None =>
                    /\ start_pref = Some(call.b)
                    /\ calls[Len(calls)].value = call.b
                    /\ start_enabled = call.b
              /\ (start_pref = None /\ calls[Len(calls)].ok) => start_enabled = call.b
              /\ (start_pref = None /\ ~calls[Len(calls)].ok) =>
                    /\ ~calls[1].ok
                    /\ ~start_enabled

\* The toggle turned autostart on and wrote it to a config with a rule; the
\* Reload read true back as the preference and applied it.
C34_Witness ==
    /\ Toggled
    /\ call.reloaded
    /\ call.b
    /\ lastCmd.tag = "Reload"
    /\ cfgFile = File("object", Some(TRUE), "rule")
    /\ start_pref = Some(TRUE)
    /\ start_enabled
    /\ osEnabled
    /\ Succeeded(calls)


-----------------------------------------------------------------------------
(* Properties of the macOS State against TrayModel, checked under SpecMac. *)

\* C39: started equal and given the same tags and the same outcomes, the
\* macOS State and TrayModel hold the same display selector, the same inputs
\* table and the same startup flag, and last_error is set in both or in
\* neither, after every sequence of preset, Reload and ToggleStartup tags.
C39_MacAgreesWithModel ==
    /\ ret.display_selector = display_selector
    /\ ret.start_at_login = start_enabled
    /\ (ret.last_error = None) <=> (last_error = None)
    /\ ret.inputs = inputs

=============================================================================
